---- MODULE Spec2Model ----
(***************************************************************************)
(* FinCraft: the trade store (models/Trade.js) and the handlers that       *)
(* create, delete and aggregate trades (routes/trades.js, routes/stocks.js,*)
(* routes/api.js, utils/analytics.js, routes/profile.js).                  *)
(*                                                                         *)
(* Numbers.  Prices are whole currency units.  A JavaScript division is    *)
(* carried out exactly: a quotient is the fraction [n, d] in lowest terms  *)
(* (d > 0), so two results are equal iff they are equal as rationals.      *)
(* Floating-point rounding error is not modelled; the explicit roundings   *)
(* of the code (toFixed, Math.round) are.                                  *)
(***************************************************************************)
EXTENDS Integers, Sequences, FiniteSets, TLC

\* ---------------------------------------------------------------- bounds
MaxTrades == 3
MaxClock == 1
MaxInflight == 2
MaxAdvances == 2

\* The calendar, in clock ticks: instant 0 is the midnight that starts a
\* year, every month has DaysPerMonth days and a year MonthsPerYear months.
TicksPerDay == 2
DaysPerMonth == 8
MonthsPerYear == 2
DaysPerWeek == 7

Users == {"u1", "u2"}
\* The sessions of logged-in users: u1 is logged in from two browsers.
SessionIds == {"s1", "s2", "s3"}
SessionUser(session) == IF session = "s3" THEN "u2" ELSE "u1"
\* A user document as registration stores it: the watchlist is the sequence
\* of the symbols of its entries.
NoWatchlist == [watchlist |-> <<>>]
Symbols == {"AAPL", "MSFT"}
Actions == {"BUY", "SELL"}
QuotePrices == {1, 2}

\* The request bodies sent to the trade-creation handlers: every BUY and
\* SELL of one or two shares at a price of 1 or 2 by u1 in AAPL, a SELL of
\* three shares, one request with a zero quantity, and a BUY by another user
\* and in another symbol.
TradeRequests ==
    [userId : {"u1"}, symbol : {"AAPL"}, action : Actions,
     quantity : {"1", "2"}, price : {"1", "2"}]
    \cup [userId : {"u1"}, symbol : {"AAPL"}, action : {"SELL"},
          quantity : {"3"}, price : {"1", "2"}]
    \cup {[userId |-> "u1", symbol |-> "AAPL", action |-> "BUY",
            quantity |-> "0", price |-> "1"],
           [userId |-> "u2", symbol |-> "AAPL", action |-> "BUY",
            quantity |-> "2", price |-> "1"],
           [userId |-> "u1", symbol |-> "MSFT", action |-> "BUY",
            quantity |-> "2", price |-> "1"]}

\* The same requests without a price, for the handler that asks the Quote
\* Provider.
StockRequests ==
    {[userId |-> r.userId, symbol |-> r.symbol, type |-> r.action,
      quantity |-> r.quantity] : r \in TradeRequests}

\* ------------------------------------------------------------- rationals
Abs(x) == IF x < 0 THEN -x ELSE x

RECURSIVE Gcd(_, _)
Gcd(a, b) == IF b = 0 THEN a ELSE Gcd(b, a % b)

\* The fraction n/d (d # 0) in lowest terms with a positive denominator.
Rat(n, d) ==
    LET g == Gcd(Abs(n), Abs(d))
        s == IF d < 0 THEN -1 ELSE 1
    IN  [n |-> (s * n) \div g, d |-> (s * d) \div g]

RInt(k) == [n |-> k, d |-> 1]
RAdd(a, b) == Rat(a.n * b.d + b.n * a.d, a.d * b.d)
RSub(a, b) == Rat(a.n * b.d - b.n * a.d, a.d * b.d)
RMul(a, b) == Rat(a.n * b.n, a.d * b.d)
RDiv(a, b) == Rat(a.n * b.d, a.d * b.n)
RLt(a, b) == a.n * b.d < b.n * a.d
RAbs(a) == [n |-> Abs(a.n), d |-> a.d]

\* A JavaScript number that may be NaN or an infinity: k is "num", "inf" or
\* "nan"; n/d is the value when k = "num".
JsNum(r) == [k |-> "num", n |-> r.n, d |-> r.d]
JsInf == [k |-> "inf", n |-> 1, d |-> 1]
JsNaN == [k |-> "nan", n |-> 0, d |-> 1]

\* x / y on JavaScript numbers with y a finite rational: 0/0 is NaN, x/0 is
\* an infinity.
JsDiv(a, b) ==
    IF b.n # 0 THEN JsNum(RDiv(a, b))
    ELSE IF a.n = 0 THEN JsNaN ELSE JsInf

\* NaN, kept as an integer that no quantity or price of the model equals.
\* Every comparison of JavaScript with NaN is false, so each comparison of
\* the handlers is guarded by IsNaN.
NaN == -1000
IsNaN(x) == x = NaN

\* parseInt / parseFloat on the request literals the model sends; a string
\* that starts with no digit ("", "abc") gives NaN.
ParseInt(raw) ==
    CASE raw = "0" -> 0
      [] raw = "1" -> 1
      [] raw = "2" -> 2
      [] raw = "3" -> 3
      [] raw = "-1" -> -1
      [] OTHER -> NaN

\* ------------------------------------------------------------ sequences
RECURSIVE SumSeq(_)
SumSeq(s) == IF s = <<>> THEN 0 ELSE Head(s) + SumSeq(Tail(s))

RECURSIVE RSumSeq(_)
RSumSeq(s) == IF s = <<>> THEN RInt(0) ELSE RAdd(Head(s), RSumSeq(Tail(s)))

SelectIdx(s, Test(_)) == {i \in 1..Len(s) : Test(s[i])}

\* s without its i-th element.
RemoveAt(s, i) == [j \in 1..(Len(s) - 1) |-> IF j < i THEN s[j] ELSE s[j + 1]]

\* All orderings of the elements of a sequence s in which keys are
\* non-decreasing (dir = 1) or non-increasing (dir = -1): what a MongoDB
\* sort on Key may return, documents with equal keys coming in any order.
Perms(n) == {f \in [1..n -> 1..n] : \A i, j \in 1..n : i # j => f[i] # f[j]}

SortedOrders(s, Key(_), dir) ==
    {[i \in 1..Len(s) |-> s[f[i]]] : f \in
        {g \in Perms(Len(s)) :
            \A i \in 1..(Len(s) - 1) :
                dir * Key(s[g[i]]) <= dir * Key(s[g[i + 1]])}}

\* ------------------------------------------------------------ the store
\* trades: the Trade collection, in insertion order.
\* nextId: the number of documents created so far (ids are never reused).
\* clock: the server's clock, the value of new Date().
\* last: the response to the last request; oversell, whether that request
\*   was a well-formed SELL, with a known price, for more than the user's net
\*   held quantity; and the document the request stored or removed.
\* inflight: the requests suspended at an await.
\* users: the user documents, by id.
\* sessions: the ids of the sessions that hold a logged-in user.
VARIABLES trades, nextId, clock, last, inflight, users, sessions

vars == <<trades, nextId, clock, last, inflight, users, sessions>>

NoTrade ==
    [id |-> 0, userId |-> "", symbol |-> "", type |-> "", quantity |-> 0,
     price |-> 0, totalAmount |-> 0, profitLoss |-> RInt(0),
     profitLossPercentage |-> JsNum(RInt(0)), tradeDate |-> 0]

Response(op, status, error, oversell, t) ==
    [op |-> op, status |-> status, error |-> error, oversell |-> oversell,
     trade |-> t]

ToUpperCase(a) ==
    CASE a = "buy" -> "BUY"
      [] a = "sell" -> "SELL"
      [] a = "aapl" -> "AAPL"
      [] a = "msft" -> "MSFT"
      [] OTHER -> a

ToLowerCase(a) ==
    CASE a = "AAPL" -> "aapl"
      [] a = "MSFT" -> "msft"
      [] OTHER -> a

\* Trade.find(filter): the documents of ts that Test accepts, in insertion
\* order.
Find(ts, Test(_)) == SelectSeq(ts, Test)

TradeDateOf(t) == t.tradeDate

\* --------------------------------------------- Trade schema
\* Mongoose validation at save(): the enum of type, the minima of quantity,
\* price and totalAmount, and the cast of every Number (NaN is rejected).
SchemaAccepts(t) ==
    /\ t.userId # ""
    /\ t.type \in {"BUY", "SELL"}
    /\ ~IsNaN(t.quantity) /\ t.quantity >= 1
    /\ ~IsNaN(t.price) /\ t.price >= 0
    /\ t.totalAmount >= 0
    /\ t.profitLossPercentage.k # "nan"

\* --------------------------------------------- POST /trades/simulate
\* netShares of the SELL check.
NetSharesOfAnyUser(ts, userId, symbol) ==
    LET userTrades == Find(ts, LAMBDA t : t.symbol = symbol)
        Signed(t) == IF t.type = "BUY" THEN t.quantity
                     ELSE IF t.type = "SELL" THEN -t.quantity ELSE 0
    IN  SumSeq([i \in 1..Len(userTrades) |-> Signed(userTrades[i])])

NetShares(ts, userId, symbol) ==
    LET userTrades == Find(ts, LAMBDA t : t.userId = userId /\ t.symbol = symbol)
        Signed(t) == IF t.type = "BUY" THEN t.quantity
                     ELSE IF t.type = "SELL" THEN -t.quantity ELSE 0
    IN  SumSeq([i \in 1..Len(userTrades) |-> Signed(userTrades[i])])

\* profitLoss of a SELL: against the average price of all BUY trades of the
\* symbol.
SimulateProfitLossUnweighted(ts, userId, symbol, tradePrice, qty) ==
    LET buyTrades == Find(ts, LAMBDA t :
                        t.userId = userId /\ t.symbol = symbol /\ t.type = "BUY")
        totalCost == SumSeq([i \in 1..Len(buyTrades) |-> buyTrades[i].price])
        totalShares == Len(buyTrades)
    IN  IF totalShares > 0
        THEN RMul(RSub(RInt(tradePrice), Rat(totalCost, totalShares)), RInt(qty))
        ELSE RInt(0)

SimulateProfitLoss(ts, userId, symbol, tradePrice, qty) ==
    LET buyTrades == Find(ts, LAMBDA t :
                        t.userId = userId /\ t.symbol = symbol /\ t.type = "BUY")
        totalCost == SumSeq([i \in 1..Len(buyTrades) |->
                        buyTrades[i].price * buyTrades[i].quantity])
        totalShares == SumSeq([i \in 1..Len(buyTrades) |-> buyTrades[i].quantity])
    IN  IF totalShares > 0
        THEN RMul(RSub(RInt(tradePrice), Rat(totalCost, totalShares)), RInt(qty))
        ELSE RInt(0)

SimulateInvalid(symbol, action, qty, tradePrice) ==
    \/ symbol = ""
    \/ action = ""
    \/ IsNaN(qty) \/ qty <= 0
    \/ IsNaN(tradePrice) \/ tradePrice <= 0

\* tradeData of the handler, as the schema stores it.
SimulateTradeData(id, userId, symbol, action, qty, tradePrice, profitLoss, now) ==
    [id |-> id, userId |-> userId, symbol |-> symbol,
     type |-> ToUpperCase(action), quantity |-> qty, price |-> tradePrice,
     totalAmount |-> qty * tradePrice, profitLoss |-> profitLoss,
     profitLossPercentage |->
        IF tradePrice > 0
        THEN JsNum(RMul(RDiv(profitLoss, RInt(tradePrice * qty)), RInt(100)))
        ELSE JsNum(RInt(0)),
     tradeDate |-> now]

\* The handler run without interruption.
Simulate(userId, symbol, action, quantity, price) ==
    LET qty == ParseInt(quantity)
        tradePrice == ParseInt(price)
        sell == ToUpperCase(action) = "SELL"
        netShares == NetShares(trades, userId, symbol)
        over == sell /\ qty > netShares
        profitLoss == IF sell
                      THEN SimulateProfitLoss(trades, userId, symbol, tradePrice, qty)
                      ELSE RInt(0)
        newTrade == SimulateTradeData(nextId + 1, userId, symbol, action, qty,
                                      tradePrice, profitLoss, clock)
    IN  /\ IF SimulateInvalid(symbol, action, qty, tradePrice)
           THEN /\ last' = Response("simulate", 400, "Invalid trade parameters",
                                    over, NoTrade)
                /\ UNCHANGED <<trades, nextId>>
           ELSE IF sell /\ netShares < qty
           THEN /\ last' = Response("simulate", 400, "Insufficient shares",
                                    over, NoTrade)
                /\ UNCHANGED <<trades, nextId>>
           ELSE IF ~SchemaAccepts(newTrade)
           THEN /\ last' = Response("simulate", 500, "Error processing trade",
                                    over, NoTrade)
                /\ UNCHANGED <<trades, nextId>>
           ELSE /\ nextId < MaxTrades
                /\ trades' = Append(trades, newTrade)
                /\ nextId' = nextId + 1
                /\ last' = Response("simulate", 200, "", over, newTrade)
        /\ UNCHANGED <<clock, inflight, users, sessions>>

\* The handler as the event loop runs it: each await hands control back, so
\* other requests run between its two reads of the collection and its
\* write.  A suspended request is [slot, pc, userId, symbol, action, qty,
\* tradePrice, profitLoss, tradeDate]; pc names the database call it awaits.
Slots == 1..MaxInflight

Suspended(slot, pc, userId, symbol, action, qty, tradePrice, profitLoss, now) ==
    [slot |-> slot, pc |-> pc, userId |-> userId, symbol |-> symbol,
     action |-> action, qty |-> qty, tradePrice |-> tradePrice,
     profitLoss |-> profitLoss, tradeDate |-> now]

\* Validation, up to the first await: the find of the SELL check, or for a
\* BUY the save of tradeData.
SimulateBegin(slot, userId, symbol, action, quantity, price) ==
    LET qty == ParseInt(quantity)
        tradePrice == ParseInt(price)
        sell == ToUpperCase(action) = "SELL"
    IN  /\ \A r \in inflight : r.slot # slot
        /\ IF SimulateInvalid(symbol, action, qty, tradePrice)
           THEN /\ last' = Response("simulate", 400, "Invalid trade parameters",
                                    FALSE, NoTrade)
                /\ UNCHANGED inflight
           ELSE /\ nextId + Cardinality(inflight) < MaxTrades
                /\ inflight' = inflight \cup
                      {Suspended(slot, IF sell THEN "check" ELSE "save", userId,
                                 symbol, action, qty, tradePrice, RInt(0), clock)}
                /\ UNCHANGED last
        /\ UNCHANGED <<trades, nextId, clock, users, sessions>>

\* The find of the SELL check returns: reject, or await the find of buyTrades.
SimulateCheck(r) ==
    LET netShares == NetShares(trades, r.userId, r.symbol)
    IN  /\ r.pc = "check"
        /\ IF netShares < r.qty
           THEN /\ inflight' = inflight \ {r}
                /\ last' = Response("simulate", 400, "Insufficient shares",
                                    TRUE, NoTrade)
           ELSE /\ inflight' = (inflight \ {r}) \cup {[r EXCEPT !.pc = "match"]}
                /\ UNCHANGED last
        /\ UNCHANGED <<trades, nextId, clock, users, sessions>>

\* The find of buyTrades returns: profitLoss and tradeData, then await save.
SimulateMatch(r) ==
    /\ r.pc = "match"
    /\ inflight' = (inflight \ {r}) \cup
          {[r EXCEPT !.pc = "save",
                     !.profitLoss = SimulateProfitLoss(trades, r.userId, r.symbol,
                                                       r.tradePrice, r.qty),
                     !.tradeDate = clock]}
    /\ UNCHANGED <<trades, nextId, clock, last, users, sessions>>

\* save() writes the document and the handler answers.
SimulateSave(r) ==
    LET newTrade == SimulateTradeData(nextId + 1, r.userId, r.symbol, r.action,
                                      r.qty, r.tradePrice, r.profitLoss, r.tradeDate)
        over == /\ ToUpperCase(r.action) = "SELL"
                /\ r.qty > NetShares(trades, r.userId, r.symbol)
    IN  /\ r.pc = "save"
        /\ inflight' = inflight \ {r}
        /\ IF SchemaAccepts(newTrade)
           THEN /\ trades' = Append(trades, newTrade)
                /\ nextId' = nextId + 1
                /\ last' = Response("simulate", 200, "", over, newTrade)
           ELSE /\ last' = Response("simulate", 500, "Error processing trade",
                                    over, NoTrade)
                /\ UNCHANGED <<trades, nextId>>
        /\ UNCHANGED <<clock, users, sessions>>

\* --------------------------------------------- POST /stocks/:symbol/trade
Min(a, b) == IF a < b THEN a ELSE b

\* totalCost of the loop over buyTrades ("FIFO method"): every BUY trade is
\* offered with its full quantity.
RECURSIVE FifoTotalCost(_, _)
FifoTotalCost(buyTrades, remainingShares) ==
    IF buyTrades = <<>> \/ remainingShares <= 0 THEN 0
    ELSE LET sharesToUse == Min(remainingShares, Head(buyTrades).quantity)
         IN  sharesToUse * Head(buyTrades).price
               + FifoTotalCost(Tail(buyTrades), remainingShares - sharesToUse)

\* The Trade document of the handler; buyTrades is what
\* Trade.find(...).sort({tradeDate: 1}) returned.
StockTradeDoc(id, userId, symbol, type, qty, currentPrice, buyTrades, now) ==
    LET totalCost == FifoTotalCost(buyTrades, qty)
        avgBuyPrice == Rat(totalCost, qty)
        gain == RSub(RInt(currentPrice), avgBuyPrice)
        pct == JsDiv(gain, avgBuyPrice)
        sell == ToUpperCase(type) = "SELL"
    IN  [id |-> id, userId |-> userId, symbol |-> symbol,
         type |-> ToUpperCase(type), quantity |-> qty, price |-> currentPrice,
         totalAmount |-> currentPrice * qty,
         profitLoss |-> IF sell THEN RMul(gain, RInt(qty)) ELSE RInt(0),
         profitLossPercentage |->
            IF ~sell THEN JsNum(RInt(0))
            ELSE IF pct.k = "num" THEN JsNum(RMul(pct, RInt(100))) ELSE pct,
         tradeDate |-> now]

\* quote is the Quote Provider's answer: its price c, or -1 when the lookup
\* fails.
StockTrade(userId, symbol, type, quantity, quote) ==
    LET qty == ParseInt(quantity)
        over == /\ ToUpperCase(type) = "SELL"
                /\ quote >= 0
                /\ qty > NetShares(trades, userId, symbol)
        found == Find(trades, LAMBDA t :
                    t.userId = userId /\ t.symbol = symbol /\ t.type = "BUY")
    IN  /\ IF type = "" \/ quantity = "" \/ (~IsNaN(qty) /\ qty <= 0)
           THEN /\ last' = Response("stockTrade", 400, "Invalid trade parameters",
                                    over, NoTrade)
                /\ UNCHANGED <<trades, nextId>>
           ELSE IF quote < 0
           THEN /\ last' = Response("stockTrade", 500, "Unable to execute trade",
                                    over, NoTrade)
                /\ UNCHANGED <<trades, nextId>>
           ELSE \E buyTrades \in SortedOrders(found, TradeDateOf, 1) :
                  LET trade == StockTradeDoc(nextId + 1, userId, symbol, type, qty,
                                             quote, buyTrades, clock)
                  IN  IF SchemaAccepts(trade)
                      THEN /\ nextId < MaxTrades
                           /\ trades' = Append(trades, trade)
                           /\ nextId' = nextId + 1
                           /\ last' = Response("stockTrade", 200, "", over, trade)
                      ELSE /\ last' = Response("stockTrade", 500,
                                               "Unable to execute trade", over, NoTrade)
                           /\ UNCHANGED <<trades, nextId>>
        /\ UNCHANGED <<clock, inflight, users, sessions>>

\* --------------------------------------------- POST /api/trade
\* The document of the handler sets neither companyName nor totalAmount,
\* both required by the schema, so save() always fails validation and the
\* handler answers 500.
ApiTrade(userId, symbol, type, quantity, price) ==
    LET over == type = "SELL" /\ ParseInt(quantity) > NetShares(trades, userId, symbol)
    IN  /\ IF symbol = "" \/ type = "" \/ quantity = "" \/ price = ""
           THEN last' = Response("apiTrade", 400, "All fields are required",
                                 over, NoTrade)
           ELSE IF type # "BUY" /\ type # "SELL"
           THEN last' = Response("apiTrade", 400, "Invalid trade type", over, NoTrade)
           ELSE IF \/ ~IsNaN(ParseInt(quantity)) /\ ParseInt(quantity) <= 0
                   \/ ~IsNaN(ParseInt(price)) /\ ParseInt(price) <= 0
           THEN last' = Response("apiTrade", 400,
                                 "Quantity and price must be positive", over, NoTrade)
           ELSE last' = Response("apiTrade", 500, "Trade validation failed",
                                 over, NoTrade)
        /\ UNCHANGED <<trades, nextId, clock, inflight, users, sessions>>

\* --------------------------------------------- DELETE /trades/:id
DeleteTradeOfAnyUser(userId, id) ==
    LET hits == SelectIdx(trades, LAMBDA t : t.id = id)
    IN  /\ IF hits = {}
           THEN /\ last' = Response("delete", 404, "Trade not found", FALSE, NoTrade)
                /\ UNCHANGED trades
           ELSE \E i \in hits :
                  /\ trades' = RemoveAt(trades, i)
                  /\ last' = Response("delete", 200, "", FALSE, trades[i])
        /\ UNCHANGED <<nextId, clock, inflight, users, sessions>>

DeleteTrade(userId, id) ==
    LET hits == SelectIdx(trades, LAMBDA t : t.id = id /\ t.userId = userId)
    IN  /\ IF hits = {}
           THEN /\ last' = Response("delete", 404, "Trade not found", FALSE, NoTrade)
                /\ UNCHANGED trades
           ELSE \E i \in hits :
                  /\ trades' = RemoveAt(trades, i)
                  /\ last' = Response("delete", 200, "", FALSE, trades[i])
        /\ UNCHANGED <<nextId, clock, inflight, users, sessions>>

\* --------------------------------------------- authMiddleware.requireAuth
\* What requireAuth does with a request that carries the session: "next"
\* when the session has a user whose document exists, "destroy" when the
\* document is gone, "login" when the session has no user.
RequireAuth(session) ==
    IF session \notin sessions THEN "login"
    ELSE IF SessionUser(session) \notin DOMAIN users THEN "destroy"
    ELSE "next"

\* The redirect to /auth/login of a request requireAuth stops; the session is
\* destroyed when its user is gone.
RedirectToLogin(session) ==
    /\ sessions' = sessions \ {session}
    /\ last' = Response("requireAuth", 302, "", FALSE, NoTrade)
    /\ UNCHANGED <<trades, nextId, clock, inflight, users>>

\* POST /trades/simulate as it is mounted: requireAuth, then the handler up
\* to its first await.
TradesSimulate(session, slot, symbol, action, quantity, price) ==
    IF RequireAuth(session) = "next"
    THEN SimulateBegin(slot, SessionUser(session), symbol, action, quantity, price)
    ELSE RedirectToLogin(session)

\* --------------------------------------------- the watchlist endpoints
\* req.session.user as login and registration build it: it has the field id
\* and no field _id, so req.session.user._id is undefined.
Undefined == "undefined"
SessionUserObject(userId) == [id |-> userId]
Field(object, field) == IF field \in DOMAIN object THEN object[field] ELSE Undefined
SessionUserField(session, field) ==
    Field(SessionUserObject(SessionUser(session)), field)

\* User.findById(id): whether a document has that id; findById(undefined)
\* looks for the _id null and finds none.
FindById(id) == id \in DOMAIN users

\* A watchlist entry; name is "" when the pushed object has no name.  The
\* schema requires symbol and name, which save() validates.
WatchlistEntry(symbol, name) == [symbol |-> symbol, name |-> name]
WatchlistValid(watchlist) ==
    \A i \in 1..Len(watchlist) :
        watchlist[i].symbol # "" /\ watchlist[i].name # ""

\* user.save() with a new watchlist: stored when the document validates.
SaveWatchlist(userId, watchlist) ==
    users' = [users EXCEPT ![userId].watchlist = watchlist]

\* POST /dashboard/watchlist/add with the comparison and the stored symbol
\* left in the case of the request.
DashboardWatchlistAddRawCase(session, symbol, name) ==
    IF RequireAuth(session) # "next" THEN RedirectToLogin(session)
    ELSE LET userId == SessionUser(session)
         IN  /\ IF symbol = "" \/ name = ""
                THEN /\ last' = Response("dashboardWatchlistAdd", 400,
                                         "Symbol and name are required", FALSE, NoTrade)
                     /\ UNCHANGED users
                ELSE IF \E i \in 1..Len(users[userId].watchlist) :
                           users[userId].watchlist[i].symbol = symbol
                THEN /\ last' = Response("dashboardWatchlistAdd", 400,
                                         "Stock is already in your watchlist",
                                         FALSE, NoTrade)
                     /\ UNCHANGED users
                ELSE /\ SaveWatchlist(userId, Append(users[userId].watchlist,
                                                     WatchlistEntry(symbol, name)))
                     /\ last' = Response("dashboardWatchlistAdd", 200, "", FALSE, NoTrade)
             /\ UNCHANGED <<trades, nextId, clock, inflight, sessions>>

\* POST /dashboard/watchlist/add, behind requireAuth.
DashboardWatchlistAdd(session, symbol, name) ==
    IF RequireAuth(session) # "next" THEN RedirectToLogin(session)
    ELSE LET id == SessionUserField(session, "_id")
             userId == IF id # Undefined THEN id ELSE SessionUserField(session, "id")
         IN  /\ IF userId = Undefined
                THEN /\ last' = Response("dashboardWatchlistAdd", 401,
                                         "User not authenticated", FALSE, NoTrade)
                     /\ UNCHANGED users
                ELSE IF symbol = "" \/ name = ""
                THEN /\ last' = Response("dashboardWatchlistAdd", 400,
                                         "Symbol and name are required", FALSE, NoTrade)
                     /\ UNCHANGED users
                ELSE IF ~FindById(userId)
                THEN /\ last' = Response("dashboardWatchlistAdd", 404,
                                         "User not found", FALSE, NoTrade)
                     /\ UNCHANGED users
                ELSE IF \E i \in 1..Len(users[userId].watchlist) :
                           users[userId].watchlist[i].symbol = ToUpperCase(symbol)
                THEN /\ last' = Response("dashboardWatchlistAdd", 400,
                                         "Stock is already in your watchlist",
                                         FALSE, NoTrade)
                     /\ UNCHANGED users
                ELSE LET watchlist == Append(users[userId].watchlist,
                                             WatchlistEntry(ToUpperCase(symbol), name))
                     IN  IF WatchlistValid(watchlist)
                         THEN /\ SaveWatchlist(userId, watchlist)
                              /\ last' = Response("dashboardWatchlistAdd", 200, "",
                                                  FALSE, NoTrade)
                         ELSE /\ last' = Response("dashboardWatchlistAdd", 500,
                                                  "Unable to add stock to watchlist",
                                                  FALSE, NoTrade)
                              /\ UNCHANGED users
             /\ UNCHANGED <<trades, nextId, clock, inflight, sessions>>

\* DELETE /dashboard/watchlist/remove/:symbol, behind requireAuth.
DashboardWatchlistRemove(session, symbol) ==
    IF RequireAuth(session) # "next" THEN RedirectToLogin(session)
    ELSE LET id == SessionUserField(session, "_id")
             userId == IF id # Undefined THEN id ELSE SessionUserField(session, "id")
         IN  /\ IF userId = Undefined
                THEN /\ last' = Response("dashboardWatchlistRemove", 401,
                                         "User not authenticated", FALSE, NoTrade)
                     /\ UNCHANGED users
                ELSE IF ~FindById(userId)
                THEN /\ last' = Response("dashboardWatchlistRemove", 404,
                                         "User not found", FALSE, NoTrade)
                     /\ UNCHANGED users
                ELSE /\ SaveWatchlist(userId,
                            SelectSeq(users[userId].watchlist,
                                      LAMBDA item : item.symbol # ToUpperCase(symbol)))
                     /\ last' = Response("dashboardWatchlistRemove", 200, "",
                                         FALSE, NoTrade)
             /\ UNCHANGED <<trades, nextId, clock, inflight, sessions>>

\* POST /api/watchlist/add: no requireAuth; the user is looked up by
\* req.session.user._id.
ApiWatchlistAdd(session, symbol, name) ==
    LET userId == SessionUserField(session, "_id")
    IN  /\ IF session \notin sessions
           THEN /\ last' = Response("apiWatchlistAdd", 401,
                                    "Authentication required", FALSE, NoTrade)
                /\ UNCHANGED users
           ELSE IF symbol = ""
           THEN /\ last' = Response("apiWatchlistAdd", 400,
                                    "Stock symbol is required", FALSE, NoTrade)
                /\ UNCHANGED users
           ELSE IF ~FindById(userId)
           THEN /\ last' = Response("apiWatchlistAdd", 404, "User not found",
                                    FALSE, NoTrade)
                /\ UNCHANGED users
           ELSE IF \E i \in 1..Len(users[userId].watchlist) :
                      users[userId].watchlist[i].symbol = symbol
           THEN /\ last' = Response("apiWatchlistAdd", 200,
                                    "Stock already in watchlist", FALSE, NoTrade)
                /\ UNCHANGED users
           ELSE /\ SaveWatchlist(userId,
                       Append(users[userId].watchlist,
                              WatchlistEntry(symbol, IF name # "" THEN name ELSE symbol)))
                /\ last' = Response("apiWatchlistAdd", 200, "", FALSE, NoTrade)
        /\ UNCHANGED <<trades, nextId, clock, inflight, sessions>>

\* POST /api/watchlist/remove.
ApiWatchlistRemove(session, symbol) ==
    LET userId == SessionUserField(session, "_id")
    IN  /\ IF session \notin sessions
           THEN /\ last' = Response("apiWatchlistRemove", 401,
                                    "Authentication required", FALSE, NoTrade)
                /\ UNCHANGED users
           ELSE IF symbol = ""
           THEN /\ last' = Response("apiWatchlistRemove", 400,
                                    "Stock symbol is required", FALSE, NoTrade)
                /\ UNCHANGED users
           ELSE IF ~FindById(userId)
           THEN /\ last' = Response("apiWatchlistRemove", 404, "User not found",
                                    FALSE, NoTrade)
                /\ UNCHANGED users
           ELSE LET watchlist == SelectSeq(users[userId].watchlist,
                                           LAMBDA item : item.symbol # symbol)
                IN  IF Len(watchlist) = Len(users[userId].watchlist)
                    THEN /\ last' = Response("apiWatchlistRemove", 200,
                                             "Stock was not in watchlist", FALSE, NoTrade)
                         /\ UNCHANGED users
                    ELSE /\ SaveWatchlist(userId, watchlist)
                         /\ last' = Response("apiWatchlistRemove", 200, "",
                                             FALSE, NoTrade)
        /\ UNCHANGED <<trades, nextId, clock, inflight, sessions>>

\* POST /search/track, behind requireAuth: the entry pushed has companyName
\* in place of name, so the document does not validate and save() throws.
SearchTrack(session, symbol, companyName) ==
    IF RequireAuth(session) # "next" THEN RedirectToLogin(session)
    ELSE LET userId == SessionUser(session)
         IN  /\ IF symbol = ""
                THEN /\ last' = Response("searchTrack", 400,
                                         "Stock symbol is required", FALSE, NoTrade)
                     /\ UNCHANGED users
                ELSE IF \E i \in 1..Len(users[userId].watchlist) :
                           ToLowerCase(users[userId].watchlist[i].symbol)
                               = ToLowerCase(symbol)
                THEN /\ last' = Response("searchTrack", 400,
                                         "Stock is already in your watchlist",
                                         FALSE, NoTrade)
                     /\ UNCHANGED users
                ELSE LET watchlist == Append(users[userId].watchlist,
                                             WatchlistEntry(ToUpperCase(symbol), ""))
                     IN  IF WatchlistValid(watchlist)
                         THEN /\ SaveWatchlist(userId, watchlist)
                              /\ last' = Response("searchTrack", 200, "", FALSE, NoTrade)
                         ELSE /\ last' = Response("searchTrack", 500,
                                                  "Error adding stock to watchlist",
                                                  FALSE, NoTrade)
                              /\ UNCHANGED users
             /\ UNCHANGED <<trades, nextId, clock, inflight, sessions>>

\* --------------------------------------------- POST /profile/delete
\* One request suspended in the handler: pc is "deleteMany" while
\* Trade.deleteMany has not run and "deleteUser" while User.findByIdAndDelete
\* has not.
AccountCall(slot, pc, session, userId) ==
    [slot |-> slot, pc |-> pc, session |-> session, userId |-> userId]

\* requireAuth, then the handler up to await Trade.deleteMany.
ProfileDelete(session, slot) ==
    IF RequireAuth(session) = "next"
    THEN /\ \A r \in inflight : r.slot # slot
         /\ inflight' = inflight \cup
                {AccountCall(slot, "deleteMany", session, SessionUser(session))}
         /\ UNCHANGED <<trades, nextId, clock, last, users, sessions>>
    ELSE RedirectToLogin(session)

\* Trade.deleteMany({ userId }) runs.
ProfileDeleteTrades(r) ==
    /\ r.pc = "deleteMany"
    /\ trades' = SelectSeq(trades, LAMBDA t : t.userId # r.userId)
    /\ inflight' = (inflight \ {r}) \cup
           {AccountCall(r.slot, "deleteUser", r.session, r.userId)}
    /\ UNCHANGED <<nextId, clock, last, users, sessions>>

\* User.findByIdAndDelete(userId) runs; the handler destroys the session and
\* redirects to the login page.
ProfileDeleteUser(r) ==
    /\ r.pc = "deleteUser"
    /\ users' = [u \in DOMAIN users \ {r.userId} |-> users[u]]
    /\ sessions' = sessions \ {r.session}
    /\ inflight' = inflight \ {r}
    /\ last' = Response("profileDelete", 302, "", FALSE, NoTrade)
    /\ UNCHANGED <<trades, nextId, clock>>

\* --------------------------------------------- Trade.getUserPortfolio
NoPosition == [totalQuantity |-> 0, totalInvestment |-> RInt(0), avgPrice |-> RInt(0)]

\* The body of the forEach for one trade of the position's symbol.
PortfolioStepWrongCost(position, trade) ==
    LET q == IF trade.type = "BUY"
             THEN position.totalQuantity + trade.quantity
             ELSE position.totalQuantity - trade.quantity
        inv == IF trade.type = "BUY"
               THEN RAdd(position.totalInvestment, RInt(trade.price))
               ELSE RSub(position.totalInvestment,
                         RMul(RInt(trade.quantity), position.avgPrice))
    IN  [totalQuantity |-> q, totalInvestment |-> inv,
         avgPrice |-> IF q > 0 THEN RDiv(inv, RInt(q)) ELSE position.avgPrice]

PortfolioStep(position, trade) ==
    LET q == IF trade.type = "BUY"
             THEN position.totalQuantity + trade.quantity
             ELSE position.totalQuantity - trade.quantity
        inv == IF trade.type = "BUY"
               THEN RAdd(position.totalInvestment, RInt(trade.totalAmount))
               ELSE RSub(position.totalInvestment,
                         RMul(RInt(trade.quantity), position.avgPrice))
    IN  [totalQuantity |-> q, totalInvestment |-> inv,
         avgPrice |-> IF q > 0 THEN RDiv(inv, RInt(q)) ELSE position.avgPrice]

\* The position of one symbol after the forEach over found, the trades in
\* the order Trade.find returned them.
RECURSIVE PortfolioPosition(_, _)
PortfolioPosition(found, symbol) ==
    IF found = <<>> THEN NoPosition
    ELSE LET before == PortfolioPosition(SubSeq(found, 1, Len(found) - 1), symbol)
             trade == found[Len(found)]
         IN  IF trade.symbol = symbol THEN PortfolioStep(before, trade) ELSE before

\* The orders in which find({userId}).sort({tradeDate: -1}) may return.
PortfolioFinds(ts, userId) ==
    SortedOrders(Find(ts, LAMBDA t : t.userId = userId), TradeDateOf, -1)

\* activePositions: the symbols returned.
GetUserPortfolio(found) ==
    {s \in {found[i].symbol : i \in 1..Len(found)} :
        PortfolioPosition(found, s).totalQuantity > 0}

\* --------------------------------------------- GET /stocks/:symbol
\* Arithmetic of totalInvestment, a JavaScript number that a division by
\* zero shares turns into an infinity or NaN.  JsInf is +Infinity and
\* JsNegInf -Infinity; totalShares is an integer and never -0.
JsNegInf == [k |-> "inf", n |-> -1, d |-> 1]
JsRat(a) == [n |-> a.n, d |-> a.d]

\* a / b for an integer b.
JsOverInt(a, b) ==
    CASE a.k = "nan" -> JsNaN
      [] a.k = "inf" -> IF (b >= 0) = (a.n > 0) THEN JsInf ELSE JsNegInf
      [] OTHER -> IF b # 0 THEN JsNum(RDiv(JsRat(a), RInt(b)))
                  ELSE IF a.n = 0 THEN JsNaN
                  ELSE IF a.n > 0 THEN JsInf ELSE JsNegInf

\* q * a for an integer q > 0.
JsTimesInt(q, a) ==
    IF a.k = "num" THEN JsNum(RMul(RInt(q), JsRat(a))) ELSE a

\* a - b.
JsMinus(a, b) ==
    CASE a.k = "nan" \/ b.k = "nan" -> JsNaN
      [] a.k = "inf" /\ b.k = "inf" -> IF a.n = b.n THEN JsNaN ELSE a
      [] a.k = "inf" -> a
      [] b.k = "inf" -> IF b.n > 0 THEN JsNegInf ELSE JsInf
      [] OTHER -> JsNum(RSub(JsRat(a), JsRat(b)))

\* a + m for an integer m.
JsPlusInt(a, m) ==
    IF a.k = "num" THEN JsNum(RAdd(JsRat(a), RInt(m))) ELSE a

NoStocksPosition == [totalShares |-> 0, totalInvestment |-> JsNum(RInt(0))]

\* The body of trades.forEach: a SELL divides by totalShares after it has
\* been decreased.
StocksPositionStep(position, trade) ==
    IF trade.type = "BUY"
    THEN [totalShares |-> position.totalShares + trade.quantity,
          totalInvestment |-> JsPlusInt(position.totalInvestment, trade.totalAmount)]
    ELSE LET totalShares == position.totalShares - trade.quantity
         IN  [totalShares |-> totalShares,
              totalInvestment |->
                 JsMinus(position.totalInvestment,
                         JsTimesInt(trade.quantity,
                                    JsOverInt(position.totalInvestment, totalShares)))]

RECURSIVE StocksPositionFold(_)
StocksPositionFold(found) ==
    IF found = <<>> THEN NoStocksPosition
    ELSE StocksPositionStep(StocksPositionFold(SubSeq(found, 1, Len(found) - 1)),
                            found[Len(found)])

\* The position block of the page: found is what
\* Trade.find({userId, symbol}).sort({tradeDate: -1}) returned.
StocksPosition(found) ==
    LET position == StocksPositionFold(found)
    IN  [totalShares |-> position.totalShares,
         totalInvestment |-> position.totalInvestment,
         avgPrice |-> IF position.totalShares > 0
                      THEN JsOverInt(position.totalInvestment, position.totalShares)
                      ELSE JsNum(RInt(0))]

StocksFinds(ts, userId, symbol) ==
    SortedOrders(Find(ts, LAMBDA t : t.userId = userId /\ t.symbol = symbol),
                 TradeDateOf, -1)

\* --------------------------------------------- GET /api/portfolio
NoApiPosition ==
    [quantity |-> 0, totalCost |-> 0, averagePrice |-> RInt(0),
     profit |-> RInt(0)]

\* The body of the for loop for one trade of the position's symbol; profit
\* is the position's share of totalProfit.
ApiPositionStep(position, trade) ==
    LET q == IF trade.type = "BUY" THEN position.quantity + trade.quantity
             ELSE position.quantity - trade.quantity
        cost == IF trade.type = "BUY"
                THEN position.totalCost + trade.quantity * trade.price
                ELSE position.totalCost
        gain == IF trade.type = "BUY" THEN RInt(0)
                ELSE RMul(RSub(RInt(trade.price), position.averagePrice),
                          RInt(trade.quantity))
    IN  [quantity |-> q, totalCost |-> cost,
         averagePrice |-> IF q > 0 THEN Rat(cost, q) ELSE position.averagePrice,
         profit |-> RAdd(position.profit, gain)]

RECURSIVE ApiPosition(_, _)
ApiPosition(found, symbol) ==
    IF found = <<>> THEN NoApiPosition
    ELSE LET before == ApiPosition(SubSeq(found, 1, Len(found) - 1), symbol)
             trade == found[Len(found)]
         IN  IF trade.symbol = symbol THEN ApiPositionStep(before, trade) ELSE before

\* What Trade.find({ userId: id }) selects.  With id undefined the condition
\* either is left out of the query, which then selects every trade of the
\* store, or reaches the store as null, which no trade's userId is.
FindByUserId(ts, id) ==
    IF id = Undefined THEN {ts, <<>>}
    ELSE {SelectSeq(ts, LAMBDA t : t.userId = id)}

\* The orders in which the find of GET /api/portfolio, which asks for no
\* order, may return for the session of userId: the handler passes
\* req.session.user._id.
ApiFinds(ts, userId) ==
    UNION {{[i \in 1..Len(mine) |-> mine[f[i]]] : f \in Perms(Len(mine))} :
              mine \in FindByUserId(ts, Field(SessionUserObject(userId), "_id"))}

\* The symbols of the positions the handler asks quotes for.
ApiActiveSymbols(found) ==
    {s \in {found[i].symbol : i \in 1..Len(found)} :
        ApiPosition(found, s).quantity > 0}

\* The sum of the values of the function f over the set S.
RECURSIVE SumOfSet(_, _)
SumOfSet(f, S) ==
    IF S = {} THEN 0
    ELSE LET x == CHOOSE y \in S : TRUE
         IN  f[x] + SumOfSet(f, S \ {x})

RECURSIVE RSumOfSet(_, _)
RSumOfSet(f, S) ==
    IF S = {} THEN RInt(0)
    ELSE LET x == CHOOSE y \in S : TRUE
         IN  RAdd(f[x], RSumOfSet(f, S \ {x}))

\* What makeApiRequest('/quote', {symbol}) gives for each symbol: the price
\* quote.c, or QuoteFailed when the request throws.
QuoteFailed == -1
Quotes == [Symbols -> QuotePrices \cup {QuoteFailed}]

\* The element pushed to activePositions for a position whose quote came.
ApiActivePosition(position, symbol, c) ==
    LET currentValue == position.quantity * c
        unrealizedProfit == currentValue - position.totalCost
    IN  [symbol |-> symbol, quantity |-> position.quantity,
         totalCost |-> position.totalCost,
         averagePrice |-> position.averagePrice,
         currentPrice |-> c, currentValue |-> currentValue,
         unrealizedProfit |-> unrealizedProfit]

\* The body of the 200 response: found is what Trade.find returned, quote
\* what the provider answers.  A position whose quote request throws is
\* logged and left out of activePositions.
ApiPortfolio(found, quote) ==
    LET symbols == {found[i].symbol : i \in 1..Len(found)}
        quoted == {s \in ApiActiveSymbols(found) : quote[s] # QuoteFailed}
        positions == [s \in quoted |->
                         ApiActivePosition(ApiPosition(found, s), s, quote[s])]
        totalProfit == RSumOfSet([s \in symbols |-> ApiPosition(found, s).profit],
                                 symbols)
        totalUnrealizedProfit ==
            SumOfSet([s \in quoted |-> positions[s].unrealizedProfit], quoted)
    IN  [totalProfit |-> RAdd(totalProfit, RInt(totalUnrealizedProfit)),
         realizedProfit |-> totalProfit,
         unrealizedProfit |-> totalUnrealizedProfit,
         totalCurrentValue |->
            SumOfSet([s \in quoted |-> positions[s].currentValue], quoted),
         totalInvested |->
            SumOfSet([s \in quoted |-> positions[s].totalCost], quoted),
         positions |-> positions,
         totalTrades |-> Len(found)]

\* --------------------------------------------- StockAPI.getBatchQuotes
\* getQuote throws when the request fails and when data.c is 0.
GetQuoteThrows(c) == c = QuoteFailed \/ c = 0

\* One entry per symbol, in the order asked (Promise.allSettled): the quote,
\* or for a rejected promise the symbol with an error and currentPrice 0.
GetBatchQuotes(symbols, quote) ==
    [i \in 1..Len(symbols) |->
        IF GetQuoteThrows(quote[symbols[i]])
        THEN [symbol |-> symbols[i], error |-> "Failed to fetch data",
              currentPrice |-> 0]
        ELSE [symbol |-> symbols[i], error |-> "",
              currentPrice |-> quote[symbols[i]]]]

\* --------------------------------------------- GET /api/portfolio, await by await
\* The symbols of found in the order the handler's positions object lists
\* them: the order of their first trade.
RECURSIVE SymbolOrder(_)
SymbolOrder(found) ==
    IF found = <<>> THEN <<>>
    ELSE LET before == SymbolOrder(SubSeq(found, 1, Len(found) - 1))
             symbol == found[Len(found)].symbol
         IN  IF \E i \in 1..Len(before) : before[i] = symbol THEN before
             ELSE Append(before, symbol)

\* One request suspended in the loop over the positions: found is what
\* Trade.find returned, todo the active symbols not yet priced (the handler
\* awaits the quote of the first), quote the answers so far; pc is "await"
\* while makeApiRequest has not settled and "settled" once it has, with c the
\* price answered or QuoteFailed.
PortfolioCall(slot, pc, userId, found, todo, quote, c) ==
    [slot |-> slot, pc |-> pc, userId |-> userId, found |-> found,
     todo |-> todo, quote |-> quote, c |-> c]

\* The handler up to its first makeApiRequest; without an active position it
\* answers at once.
PortfolioBegin(slot, userId) ==
    /\ \A r \in inflight : r.slot # slot
    /\ \E found \in ApiFinds(trades, userId) :
          LET active == ApiActiveSymbols(found)
              todo == SelectSeq(SymbolOrder(found), LAMBDA s : s \in active)
          IN  IF todo = <<>>
              THEN /\ last' = Response("portfolio", 200, "", FALSE, NoTrade)
                   /\ UNCHANGED inflight
              ELSE /\ inflight' = inflight \cup
                         {PortfolioCall(slot, "await", userId, found, todo,
                                        [s \in Symbols |-> QuoteFailed], QuoteFailed)}
                   /\ UNCHANGED last
    /\ UNCHANGED <<trades, nextId, clock, users, sessions>>

\* The Quote Provider settles the axios.get of makeApiRequest, which sets no
\* timeout: with a price, or with an error.
QuoteArrive(r, c) ==
    /\ r.pc = "await"
    /\ inflight' = (inflight \ {r}) \cup
           {PortfolioCall(r.slot, "settled", r.userId, r.found, r.todo, r.quote, c)}
    /\ UNCHANGED <<trades, nextId, clock, last, users, sessions>>

\* The handler goes on after the await: it keeps the price, or in the catch
\* drops the position, then asks for the next symbol or answers.
PortfolioResume(r) ==
    /\ r.pc = "settled"
    /\ LET quote == [r.quote EXCEPT ![Head(r.todo)] = r.c]
           todo == Tail(r.todo)
       IN  IF todo = <<>>
           THEN /\ inflight' = inflight \ {r}
                /\ last' = Response("portfolio", 200, "", FALSE, NoTrade)
           ELSE /\ inflight' = (inflight \ {r}) \cup
                      {PortfolioCall(r.slot, "await", r.userId, r.found, todo,
                                     quote, QuoteFailed)}
                /\ UNCHANGED last
    /\ UNCHANGED <<trades, nextId, clock, users, sessions>>

\* --------------------------------------------- analytics.getPortfolioSummary
\* portfolio is the set of symbols Trade.getUserPortfolio returned with
\* their positions; no quote is asked for, totalValue and totalUnrealizedPL
\* stay 0.
GetPortfolioSummary(found) ==
    LET active == GetUserPortfolio(found)
        portfolio == [s \in active |-> PortfolioPosition(found, s)]
    IN  [totalPositions |-> Cardinality(active),
         totalInvestment |->
            RSumOfSet([s \in active |-> portfolio[s].totalInvestment], active),
         totalValue |-> 0,
         totalUnrealizedPL |-> 0,
         portfolio |-> portfolio]

\* --------------------------------------------- time windows
Mod(a, b) == ((a % b) + b) % b
WeekTicks == DaysPerWeek * TicksPerDay
MonthTicks == DaysPerMonth * TicksPerDay
YearTicks == MonthsPerYear * MonthTicks

StartOfDay(t) == t - Mod(t, TicksPerDay)
StartOfMonth(t) == t - Mod(t, MonthTicks)
StartOfYear(t) == t - Mod(t, YearTicks)

Periods == {"today", "week", "month", "year", "all"}

\* A window is [bounded, from]: tradeDate >= from when bounded, else every
\* trade.
Since(t) == [bounded |-> TRUE, from |-> t]
Unbounded == [bounded |-> FALSE, from |-> 0]
InWindow(w, t) == ~w.bounded \/ t.tradeDate >= w.from

\* startDate of GET /trades/stats.
StatsWindow(period, now) ==
    CASE period = "today" -> Since(StartOfDay(now))
      [] period = "week" -> Since(now - WeekTicks)
      [] period = "month" -> Since(StartOfMonth(now))
      [] period = "year" -> Since(StartOfYear(now))
      [] OTHER -> Unbounded

\* startDate of analytics.calculateProfitLoss (moment).
AnalyticsWindow(period, now) ==
    CASE period = "today" -> Since(StartOfDay(now))
      [] period = "week" -> Since(StartOfDay(now - WeekTicks))
      [] period = "month" -> Since(StartOfDay(now - MonthTicks))
      [] period = "year" -> Since(StartOfDay(now - YearTicks))
      [] OTHER -> Unbounded

\* startDate of GET /trades.
TradesWindow(period, now) ==
    CASE period = "today" -> Since(StartOfDay(now))
      [] period = "week" -> Since(now - WeekTicks)
      [] period = "month" -> Since(StartOfMonth(now))
      [] period = "year" -> Since(StartOfYear(now))
      [] OTHER -> Unbounded

\* fromDate of GET /api/portfolio/:period.
PeriodFromDate(period, now) ==
    CASE period = "today" -> Since(StartOfDay(now))
      [] period = "week" -> Since(now - WeekTicks)
      [] period = "month" -> Since(StartOfDay(now - MonthTicks))
      [] period = "year" -> Since(StartOfDay(now - YearTicks))
      [] OTHER -> Unbounded

\* Whether Trade.find of GET /api/portfolio/:period returns the user's trade
\* t.  The handler puts fromDate on the path "timestamp", which the Trade
\* schema does not have: a mongoose whose strictQuery is on drops the
\* condition from the filter, and one whose strictQuery is off sends it to
\* the store, where no document has the field.
StrictQueryBuilds == BOOLEAN
PeriodSelects(strictQuery, period, now, t) ==
    \/ ~PeriodFromDate(period, now).bounded
    \/ strictQuery

\* Whether getUserStats of the profile counts the trade t in the period
\* (it has no "year"): oneMonthAgo and oneWeekAgo keep the time of day, and
\* "today" compares the days of the two dates.
ProfileSelects(period, now, t) ==
    CASE period = "today" -> StartOfDay(t.tradeDate) = StartOfDay(now)
      [] period = "week" -> t.tradeDate >= now - WeekTicks
      [] period = "month" -> t.tradeDate >= now - MonthTicks
      [] OTHER -> TRUE

\* ------------------------------------------------------------ roundings
Pow10(k) == IF k = 0 THEN 1 ELSE IF k = 1 THEN 10 ELSE 100

\* The integer nearest to the rational r, halves away from zero.
RoundHalfAway(r) ==
    LET m == (2 * Abs(r.n) + r.d) \div (2 * r.d)
    IN  IF r.n < 0 THEN -m ELSE m

\* Number.prototype.toFixed(places): a string of decimal digits, kept as the
\* integer its digits spell and the number of digits after the point
\* ("0.67" is digits 67, places 2; "0.0" is digits 0, places 1).
ToFixed(r, places) ==
    [digits |-> RoundHalfAway(RMul(r, RInt(Pow10(places)))), places |-> places]

\* The number a reported value denotes: a toFixed string is read as the
\* decimal it spells, a number is itself.
NumberOf(v) ==
    IF "digits" \in DOMAIN v THEN Rat(v.digits, Pow10(v.places)) ELSE v

\* Math.round: halves toward +infinity.
MathRound(r) == (2 * r.n + r.d) \div (2 * r.d)

\* --------------------------------------------- analytics.calculateProfitLoss
CountIf(s, Test(_)) == Len(SelectSeq(s, Test))

CalculateProfitLossAllTime(ts, userId, period, now) ==
    LET found == Find(ts, LAMBDA t : t.userId = userId)
        sells == SelectSeq(found, LAMBDA t : t.type = "SELL")
        wins == SelectSeq(sells, LAMBDA t : RLt(RInt(0), t.profitLoss))
        losses == SelectSeq(sells, LAMBDA t : ~RLt(RInt(0), t.profitLoss))
        totalProfit == RSumSeq([i \in 1..Len(wins) |-> wins[i].profitLoss])
        totalLoss == RSumSeq([i \in 1..Len(losses) |-> RAbs(losses[i].profitLoss)])
        totalTrades == Len(Find(ts, LAMBDA t :
                          /\ t.userId = userId
                          /\ InWindow(AnalyticsWindow(period, now), t)))
        buys == SelectSeq(found, LAMBDA t : t.type = "BUY")
    IN  [totalProfit |-> totalProfit, totalLoss |-> totalLoss,
         netProfit |-> RSub(totalProfit, totalLoss),
         totalInvestment |-> SumSeq([i \in 1..Len(buys) |-> buys[i].totalAmount]),
         totalTrades |-> totalTrades,
         winningTrades |-> Len(wins), losingTrades |-> Len(losses),
         winRate |-> IF totalTrades > 0
                     THEN RMul(Rat(Len(wins), totalTrades), RInt(100))
                     ELSE RInt(0)]

CalculateProfitLoss(ts, userId, period, now) ==
    LET found == Find(ts, LAMBDA t :
                    /\ t.userId = userId
                    /\ InWindow(AnalyticsWindow(period, now), t)
                    /\ t.tradeDate <= now)
        sells == SelectSeq(found, LAMBDA t : t.type = "SELL")
        wins == SelectSeq(sells, LAMBDA t : RLt(RInt(0), t.profitLoss))
        losses == SelectSeq(sells, LAMBDA t : ~RLt(RInt(0), t.profitLoss))
        totalProfit == RSumSeq([i \in 1..Len(wins) |-> wins[i].profitLoss])
        totalLoss == RSumSeq([i \in 1..Len(losses) |-> RAbs(losses[i].profitLoss)])
        totalTrades == Len(found)
        buys == SelectSeq(found, LAMBDA t : t.type = "BUY")
    IN  [totalProfit |-> totalProfit, totalLoss |-> totalLoss,
         netProfit |-> RSub(totalProfit, totalLoss),
         totalInvestment |-> SumSeq([i \in 1..Len(buys) |-> buys[i].totalAmount]),
         totalTrades |-> totalTrades,
         winningTrades |-> Len(wins), losingTrades |-> Len(losses),
         winRate |-> IF totalTrades > 0
                     THEN RMul(Rat(Len(wins), totalTrades), RInt(100))
                     ELSE RInt(0)]

\* --------------------------------------------- analytics.calculatePerformanceMetrics
\* found is what the find of Trade.getUserPortfolio returned.  The ratios
\* are JavaScript numbers: profitFactor is Infinity when there are profits
\* and no loss.
CalculatePerformanceMetricsWindowed(ts, userId, period, now, found) ==
    LET profitLoss == CalculateProfitLoss(ts, userId, period, now)
        inside == SelectSeq(found, LAMBDA t :
                      InWindow(AnalyticsWindow(period, now), t))
    IN  [profitLoss |-> profitLoss,
         portfolio |-> GetPortfolioSummary(inside),
         totalReturn |-> RInt(0), avgTradeValue |-> RInt(0),
         avgProfit |-> RInt(0), avgLoss |-> RInt(0),
         profitFactor |-> JsNum(RInt(0))]

CalculatePerformanceMetrics(ts, userId, period, now, found) ==
    LET profitLoss == CalculateProfitLoss(ts, userId, period, now)
        portfolio == GetPortfolioSummary(found)
    IN  [profitLoss |-> profitLoss,
         portfolio |-> portfolio,
         totalReturn |->
            IF profitLoss.totalInvestment > 0
            THEN RMul(RDiv(profitLoss.netProfit, RInt(profitLoss.totalInvestment)),
                      RInt(100))
            ELSE RInt(0),
         avgTradeValue |->
            IF profitLoss.totalTrades > 0
            THEN Rat(profitLoss.totalInvestment, profitLoss.totalTrades)
            ELSE RInt(0),
         avgProfit |->
            IF profitLoss.winningTrades > 0
            THEN RDiv(profitLoss.totalProfit, RInt(profitLoss.winningTrades))
            ELSE RInt(0),
         avgLoss |->
            IF profitLoss.losingTrades > 0
            THEN RDiv(profitLoss.totalLoss, RInt(profitLoss.losingTrades))
            ELSE RInt(0),
         profitFactor |->
            IF RLt(RInt(0), profitLoss.totalLoss)
            THEN JsNum(RDiv(profitLoss.totalProfit, profitLoss.totalLoss))
            ELSE IF RLt(RInt(0), profitLoss.totalProfit) THEN JsInf
                 ELSE JsNum(RInt(0))]

\* --------------------------------------------- GET /trades/stats
\* stats of the response; the strings of toFixed are given by their value.
TradesStatsAllUsers(ts, userId, period, now) ==
    LET found == Find(ts, LAMBDA t : InWindow(StatsWindow(period, now), t))
        totalTrades == Len(found)
        totalProfit == RSumSeq([i \in 1..totalTrades |-> found[i].profitLoss])
        winningTrades == SelectSeq(found, LAMBDA t : RLt(RInt(0), t.profitLoss))
        losingTrades == SelectSeq(found, LAMBDA t : RLt(t.profitLoss, RInt(0)))
    IN  [totalTrades |-> totalTrades,
         totalProfit |-> ToFixed(totalProfit, 2),
         winningTrades |-> Len(winningTrades),
         losingTrades |-> Len(losingTrades),
         winRate |-> IF totalTrades > 0
                     THEN ToFixed(RMul(Rat(Len(winningTrades), totalTrades), RInt(100)), 1)
                     ELSE RInt(0)]

TradesStats(ts, userId, period, now) ==
    LET found == Find(ts, LAMBDA t :
                    t.userId = userId /\ InWindow(StatsWindow(period, now), t))
        totalTrades == Len(found)
        totalProfit == RSumSeq([i \in 1..totalTrades |-> found[i].profitLoss])
        winningTrades == SelectSeq(found, LAMBDA t : RLt(RInt(0), t.profitLoss))
        losingTrades == SelectSeq(found, LAMBDA t : RLt(t.profitLoss, RInt(0)))
    IN  [totalTrades |-> totalTrades,
         totalProfit |-> ToFixed(totalProfit, 2),
         winningTrades |-> Len(winningTrades),
         losingTrades |-> Len(losingTrades),
         winRate |-> IF totalTrades > 0
                     THEN ToFixed(RMul(Rat(Len(winningTrades), totalTrades), RInt(100)), 1)
                     ELSE RInt(0)]

\* --------------------------------------------- profile getUserStats
\* winRate of the helper: over all trades of the user, a whole number.
GetUserStatsWinRate(ts, userId) ==
    LET found == Find(ts, LAMBDA t : t.userId = userId)
        totalTrades == Len(found)
        profitableTrades == CountIf(found, LAMBDA t : RLt(RInt(0), t.profitLoss))
    IN  IF totalTrades > 0
        THEN MathRound(RMul(Rat(profitableTrades, totalTrades), RInt(100)))
        ELSE 0

\* The distances between the instants of two requests: a tick, a day, a
\* week, a month, a year.
Jumps == {1, TicksPerDay, WeekTicks, MonthTicks, YearTicks}

\* The instants that at most k jumps reach.
RECURSIVE JumpSums(_)
JumpSums(k) ==
    IF k = 0 THEN {0}
    ELSE JumpSums(k - 1) \cup {t + d : t \in JumpSums(k - 1), d \in Jumps}

\* The server's clock moves on by d ticks, from an instant that fewer than
\* MaxAdvances jumps reach.
Advance(d) ==
    /\ clock \in JumpSums(MaxAdvances - 1)
    /\ clock' = clock + d
    /\ UNCHANGED <<trades, nextId, last, inflight, users, sessions>>

\* Time passes.
Tick ==
    /\ clock < MaxClock
    /\ clock' = clock + 1
    /\ UNCHANGED <<trades, nextId, last, inflight, users, sessions>>

\* ------------------------------------------------------- specification
Init ==
    /\ trades = <<>>
    /\ nextId = 0
    /\ clock = 0
    /\ last = Response("none", 0, "", FALSE, NoTrade)
    /\ inflight = {}
    /\ users = [u \in Users |-> NoWatchlist]
    /\ sessions = SessionIds

Next ==
    \/ \E r \in TradeRequests :
          Simulate(r.userId, r.symbol, r.action, r.quantity, r.price)
    \/ \E r \in StockRequests, c \in QuotePrices \cup {-1} :
          StockTrade(r.userId, r.symbol, r.type, r.quantity, c)
    \/ \E r \in TradeRequests :
          ApiTrade(r.userId, r.symbol, r.action, r.quantity, r.price)
    \/ Tick

Spec == Init /\ [][Next]_vars

\* Trade creation through POST /trades/simulate and deletion through
\* DELETE /trades/:id, one request at a time.
NextDelete ==
    \/ \E r \in TradeRequests :
          Simulate(r.userId, r.symbol, r.action, r.quantity, r.price)
    \/ \E u \in Users, id \in 1..MaxTrades : DeleteTrade(u, id)
    \/ Tick

SpecDelete == Init /\ [][NextDelete]_vars

\* POST /trades/simulate requests served concurrently.
NextConcurrent ==
    \/ \E slot \in Slots, r \in TradeRequests :
          SimulateBegin(slot, r.userId, r.symbol, r.action, r.quantity, r.price)
    \/ \E r \in inflight : SimulateCheck(r)
    \/ \E r \in inflight : SimulateMatch(r)
    \/ \E r \in inflight : SimulateSave(r)
    \/ Tick

SpecConcurrent == Init /\ [][NextConcurrent]_vars

\* The store as the metrics handlers read it: trades of two users made
\* through POST /trades/simulate at instants that lie the same day, a day, a
\* week, a month or a year apart.
StatsRequests ==
    {[userId |-> "u1", symbol |-> "AAPL", action |-> "BUY", quantity |-> "2", price |-> "1"],
     [userId |-> "u1", symbol |-> "AAPL", action |-> "BUY", quantity |-> "1", price |-> "2"],
     [userId |-> "u1", symbol |-> "AAPL", action |-> "SELL", quantity |-> "1", price |-> "1"],
     [userId |-> "u1", symbol |-> "AAPL", action |-> "SELL", quantity |-> "1", price |-> "2"],
     [userId |-> "u2", symbol |-> "AAPL", action |-> "BUY", quantity |-> "1", price |-> "1"],
     [userId |-> "u2", symbol |-> "AAPL", action |-> "SELL", quantity |-> "1", price |-> "2"],
     [userId |-> "u2", symbol |-> "AAPL", action |-> "BUY", quantity |-> "0", price |-> "1"]}

NextStats ==
    \/ \E r \in StatsRequests :
          Simulate(r.userId, r.symbol, r.action, r.quantity, r.price)
    \/ \E d \in Jumps : Advance(d)

SpecStats == Init /\ [][NextStats]_vars

\* Well-formed and malformed request bodies: the well-formed ones fill the
\* store; each malformed one differs from a well-formed BUY or SELL in one
\* field that is missing (""), not a number ("abc"), zero, negative, or an
\* action that is neither BUY nor SELL.
WellFormedRequests ==
    {[userId |-> "u1", symbol |-> "AAPL", action |-> "BUY", quantity |-> "1", price |-> "1"],
     [userId |-> "u1", symbol |-> "AAPL", action |-> "BUY", quantity |-> "2", price |-> "2"],
     [userId |-> "u1", symbol |-> "AAPL", action |-> "SELL", quantity |-> "1", price |-> "2"],
     [userId |-> "u1", symbol |-> "AAPL", action |-> "sell", quantity |-> "1", price |-> "1"]}

MalformedRequests ==
    [userId : {"u1"}, symbol : {""}, action : {"BUY"}, quantity : {"1"}, price : {"1"}]
    \cup [userId : {"u1"}, symbol : {"AAPL"}, action : {"", "HOLD"},
          quantity : {"1"}, price : {"1"}]
    \cup [userId : {"u1"}, symbol : {"AAPL"}, action : {"BUY", "SELL"},
          quantity : {"", "abc", "0", "-1"}, price : {"1"}]
    \cup [userId : {"u1"}, symbol : {"AAPL"}, action : {"BUY", "SELL"},
          quantity : {"1"}, price : {"", "abc", "0", "-1"}]

ValidateRequests == WellFormedRequests \cup MalformedRequests

\* The symbol of POST /stocks/:symbol/trade is part of the path and the
\* price comes from the Quote Provider.
ValidateStockRequests ==
    {[userId |-> r.userId, symbol |-> r.symbol, type |-> r.action,
      quantity |-> r.quantity] : r \in {q \in ValidateRequests : q.symbol # ""}}

NextValidate ==
    \/ \E r \in ValidateRequests :
          Simulate(r.userId, r.symbol, r.action, r.quantity, r.price)
    \/ \E r \in ValidateStockRequests, c \in QuotePrices \cup {QuoteFailed} :
          StockTrade(r.userId, r.symbol, r.type, r.quantity, c)
    \/ \E r \in ValidateRequests :
          ApiTrade(r.userId, r.symbol, r.action, r.quantity, r.price)
    \/ Tick

SpecValidate == Init /\ [][NextValidate]_vars

\* A store that already holds one lot, BUY 1@1 by u1 in AAPL made through
\* POST /trades/simulate at instant 0, and the requests that buy a second
\* lot at another price and sell from the two lots.
SeedTrade == SimulateTradeData(0, "u1", "AAPL", "BUY", 1, 1, RInt(0), 0)

InitFifo ==
    /\ trades = <<SeedTrade>>
    /\ nextId = 0
    /\ clock = 0
    /\ last = Response("none", 0, "", FALSE, NoTrade)
    /\ inflight = {}
    /\ users = [u \in Users |-> NoWatchlist]
    /\ sessions = SessionIds

FifoRequests ==
    {[userId |-> "u1", symbol |-> "AAPL", action |-> "BUY", quantity |-> "1", price |-> "2"],
     [userId |-> "u1", symbol |-> "AAPL", action |-> "BUY", quantity |-> "2", price |-> "2"],
     [userId |-> "u1", symbol |-> "AAPL", action |-> "SELL", quantity |-> "1", price |-> "1"],
     [userId |-> "u1", symbol |-> "AAPL", action |-> "SELL", quantity |-> "1", price |-> "2"],
     [userId |-> "u1", symbol |-> "AAPL", action |-> "SELL", quantity |-> "2", price |-> "2"]}

FifoStockRequests ==
    {[userId |-> r.userId, symbol |-> r.symbol, type |-> r.action,
      quantity |-> r.quantity] : r \in FifoRequests}

NextFifo ==
    \/ \E r \in FifoRequests :
          Simulate(r.userId, r.symbol, r.action, r.quantity, r.price)
    \/ \E r \in FifoStockRequests, c \in QuotePrices :
          StockTrade(r.userId, r.symbol, r.type, r.quantity, c)
    \/ Tick

SpecFifo == InitFifo /\ [][NextFifo]_vars

\* Trade creation while the Quote Provider may answer a quote whose price c
\* is 0, which it does for a symbol it has no price for.
QuoteAnswers == QuotePrices \cup {0, QuoteFailed}

NextQuote ==
    \/ \E r \in TradeRequests :
          Simulate(r.userId, r.symbol, r.action, r.quantity, r.price)
    \/ \E r \in StockRequests, c \in QuoteAnswers :
          StockTrade(r.userId, r.symbol, r.type, r.quantity, c)
    \/ Tick

SpecQuote == Init /\ [][NextQuote]_vars

\* GET /api/portfolio requests of a user who trades two symbols, with the
\* Quote Provider free to settle a lookup or not.  The event loop runs a
\* handler whose await has settled; nothing makes the provider answer.
PortfolioRequests ==
    {[userId |-> "u1", symbol |-> "AAPL", action |-> "BUY", quantity |-> "1", price |-> "1"],
     [userId |-> "u1", symbol |-> "MSFT", action |-> "BUY", quantity |-> "1", price |-> "1"],
     [userId |-> "u1", symbol |-> "AAPL", action |-> "SELL", quantity |-> "1", price |-> "2"]}

NextPortfolio ==
    \/ \E r \in PortfolioRequests :
          Simulate(r.userId, r.symbol, r.action, r.quantity, r.price)
    \/ \E slot \in Slots : PortfolioBegin(slot, "u1")
    \/ \E r \in inflight, c \in QuotePrices \cup {QuoteFailed} : QuoteArrive(r, c)
    \/ \E r \in inflight : PortfolioResume(r)

SpecPortfolio ==
    /\ Init
    /\ [][NextPortfolio]_vars
    /\ \A slot \in Slots :
          WF_vars(\E r \in inflight : r.slot = slot /\ PortfolioResume(r))

\* Account deletion among the requests of the same user: u1 trades from two
\* sessions and deletes the account from either, every request suspended at
\* its awaits.
AccountRequests ==
    {[symbol |-> "AAPL", action |-> "BUY", quantity |-> "1", price |-> "1"],
     [symbol |-> "AAPL", action |-> "SELL", quantity |-> "1", price |-> "1"]}

NextAccount ==
    \/ \E session \in SessionIds, slot \in Slots, r \in AccountRequests :
          TradesSimulate(session, slot, r.symbol, r.action, r.quantity, r.price)
    \/ \E r \in inflight : SimulateCheck(r)
    \/ \E r \in inflight : SimulateMatch(r)
    \/ \E r \in inflight : SimulateSave(r)
    \/ \E session \in SessionIds, slot \in Slots : ProfileDelete(session, slot)
    \/ \E r \in inflight : ProfileDeleteTrades(r)
    \/ \E r \in inflight : ProfileDeleteUser(r)

SpecAccount == Init /\ [][NextAccount]_vars

\* The watchlist endpoints, asked for two tickers in either case by the
\* sessions of two users.
WatchSymbols == {"AAPL", "aapl", "MSFT", "msft", ""}
WatchNames == {"Apple", ""}

NextWatchlist ==
    \/ \E session \in SessionIds, symbol \in WatchSymbols, name \in WatchNames :
          DashboardWatchlistAdd(session, symbol, name)
    \/ \E session \in SessionIds, symbol \in WatchSymbols \ {""} :
          DashboardWatchlistRemove(session, symbol)
    \/ \E session \in SessionIds, symbol \in WatchSymbols, name \in WatchNames :
          ApiWatchlistAdd(session, symbol, name)
    \/ \E session \in SessionIds, symbol \in WatchSymbols :
          ApiWatchlistRemove(session, symbol)
    \/ \E session \in SessionIds, symbol \in WatchSymbols, name \in WatchNames :
          SearchTrack(session, symbol, name)

SpecWatchlist == Init /\ [][NextWatchlist]_vars

\* ================================================================ claims
\* The trades of one user in one symbol, oldest first.
History(ts, userId, symbol) ==
    Find(ts, LAMBDA t : t.userId = userId /\ t.symbol = symbol)

BuysOf(h) == SelectSeq(h, LAMBDA t : t.type = "BUY")
SellsOf(h) == SelectSeq(h, LAMBDA t : t.type = "SELL")
QuantityOf(h) == SumSeq([i \in 1..Len(h) |-> h[i].quantity])
CostOf(h) == SumSeq([i \in 1..Len(h) |-> h[i].quantity * h[i].price])

CreationOps == {"simulate", "stockTrade", "apiTrade"}

\* C1: a SELL request for more than the net held quantity, through any
\* trade-creation handler, is answered with the insufficient-shares error
\* and stores no trade.
C1_OversellRejected ==
    (last.op \in CreationOps /\ last.oversell)
        => (last.error = "Insufficient shares" /\ last.trade = NoTrade)

\* The cost of q shares taken from the BUY lots oldest first, each lot
\* offered with its quantity.
RECURSIVE OldestFirstCost(_, _)
OldestFirstCost(lots, q) ==
    IF lots = <<>> \/ q = 0 THEN 0
    ELSE LET take == IF q < Head(lots).quantity THEN q ELSE Head(lots).quantity
         IN  take * Head(lots).price + OldestFirstCost(Tail(lots), q - take)

SoldWithinHoldings ==
    /\ last.op \in {"simulate", "stockTrade"}
    /\ last.status = 200
    /\ last.trade.type = "SELL"
    /\ ~last.oversell

\* C3: a SELL of q shares at price p stored for a holding of at least q
\* shares has profitLoss = (p - matchedCost/q) * q, matchedCost being the
\* cost of q shares taken from the BUY trades oldest first.
C3_SellProfitIsFifo ==
    SoldWithinHoldings =>
        LET t == last.trade
            lots == BuysOf(History(trades, t.userId, t.symbol))
        IN  t.profitLoss =
              RMul(RSub(RInt(t.price), Rat(OldestFirstCost(lots, t.quantity), t.quantity)),
                   RInt(t.quantity))

\* A history of one or more BUYs followed by one SELL of all shares bought.
BuysThenFullSell(h) ==
    /\ Len(h) >= 2
    /\ \A i \in 1..(Len(h) - 1) : h[i].type = "BUY"
    /\ h[Len(h)].type = "SELL"
    /\ h[Len(h)].quantity = QuantityOf(SubSeq(h, 1, Len(h) - 1))

C4_Witness ==
    \E u \in Users, s \in Symbols :
        LET h == History(trades, u, s)
        IN  /\ BuysThenFullSell(h)
            /\ Len(h) = 3
            /\ h[1].price # h[2].price
            /\ h[1].quantity # h[2].quantity

BuysOnly(h) == h # <<>> /\ \A i \in 1..Len(h) : h[i].type = "BUY"

\* C5: for a history of BUYs only the position's quantity is the sum of the
\* quantities bought, its total cost the sum of quantity * price, and
\* averagePrice * quantity is that total cost.
C5_BuysOnlyPosition ==
    \A u \in Users, s \in Symbols :
        LET h == History(trades, u, s)
        IN  BuysOnly(h) =>
              /\ \A found \in PortfolioFinds(trades, u) :
                    LET pos == PortfolioPosition(found, s)
                    IN  /\ pos.totalQuantity = QuantityOf(h)
                        /\ pos.totalInvestment = RInt(CostOf(h))
                        /\ RMul(pos.avgPrice, RInt(pos.totalQuantity)) = RInt(CostOf(h))
              /\ \A found \in ApiFinds(trades, u) :
                    LET pos == ApiPosition(found, s)
                    IN  /\ pos.quantity = QuantityOf(h)
                        /\ pos.totalCost = CostOf(h)
                        /\ RMul(pos.averagePrice, RInt(pos.quantity)) = RInt(CostOf(h))

C5_Witness ==
    \E u \in Users, s \in Symbols :
        LET h == History(trades, u, s)
        IN  /\ BuysOnly(h)
            /\ Len(h) >= 2
            /\ h[1].price # h[2].price
            /\ \E t \in {trades[i] : i \in 1..Len(trades)} :
                  t.userId = u /\ t.symbol # s

\* The BUY lots left after q shares are taken from the oldest lots.
RECURSIVE LotsLeft(_, _)
LotsLeft(lots, q) ==
    IF lots = <<>> \/ q = 0 THEN lots
    ELSE IF q < Head(lots).quantity
         THEN <<[Head(lots) EXCEPT !.quantity = @ - q]>> \o Tail(lots)
         ELSE LotsLeft(Tail(lots), q - Head(lots).quantity)

\* The unmatched BUY lots after the first k trades of the history h.
RECURSIVE OpenLots(_, _)
OpenLots(h, k) ==
    IF k = 0 THEN <<>>
    ELSE IF h[k].type = "BUY" THEN Append(OpenLots(h, k - 1), h[k])
         ELSE LotsLeft(OpenLots(h, k - 1), h[k].quantity)

\* The profitLoss of the SELL h[k] by FIFO matching over the history h:
\* (price - matched cost / quantity) * quantity, and 0 when no share is
\* matched.
FifoProfitLoss(h, k) ==
    LET lots == OpenLots(h, k - 1)
    IN  IF lots = <<>> THEN RInt(0)
        ELSE RMul(RSub(RInt(h[k].price),
                       Rat(OldestFirstCost(lots, h[k].quantity), h[k].quantity)),
                  RInt(h[k].quantity))

\* The last request deleted a BUY that an existing later SELL of the same
\* user and symbol follows.
DeletedMatchedBuy ==
    /\ last.op = "delete"
    /\ last.status = 200
    /\ last.trade.type = "BUY"
    /\ \E i \in 1..Len(trades) :
          /\ trades[i].userId = last.trade.userId
          /\ trades[i].symbol = last.trade.symbol
          /\ trades[i].type = "SELL"
          /\ trades[i].id > last.trade.id

\* C6: when DELETE /trades/:id removes a BUY that a later SELL was matched
\* against, the profitLoss of every such SELL equals the value recomputed
\* by FIFO matching over the remaining trades (the deletion is never
\* rejected by the handler, so this is the only policy it could follow).
C6_DeleteRecomputes ==
    DeletedMatchedBuy =>
        LET h == History(trades, last.trade.userId, last.trade.symbol)
        IN  \A k \in 1..Len(h) :
                (h[k].type = "SELL" /\ h[k].id > last.trade.id)
                    => h[k].profitLoss = FifoProfitLoss(h, k)

\* C7: the net held quantity of every user in every symbol is never
\* negative.
C7_NetHeldNonNegative ==
    \A u \in Users, s \in Symbols : NetShares(trades, u, s) >= 0

\* C2: concurrent SELLs of POST /trades/simulate never oversell: every
\* stored SELL fits the holdings the store held when it was written, so the
\* net held quantity never becomes negative.
C2_ConcurrentSellsSerialized ==
    \A k \in 1..Len(trades) :
        NetShares(SubSeq(trades, 1, k), trades[k].userId, trades[k].symbol) >= 0

\* The SELL trades of a user inside a window, and the winners among them.
SellsIn(w, userId) ==
    Find(trades, LAMBDA t :
        t.userId = userId /\ t.type = "SELL" /\ InWindow(w, t) /\ t.tradeDate <= clock)

WinnersIn(w, userId) ==
    SelectSeq(SellsIn(w, userId), LAMBDA t : RLt(RInt(0), t.profitLoss))

\* 100 * winning SELLs / SELLs, and 0 when there is no SELL.
WinRateOverSells(w, userId) ==
    IF SellsIn(w, userId) = <<>> THEN RInt(0)
    ELSE RMul(Rat(Len(WinnersIn(w, userId)), Len(SellsIn(w, userId))), RInt(100))

\* C8: the winRate of every metrics handler is 100 * (SELLs of the window
\* with profitLoss > 0) / (SELLs of the window), shown with the handler's
\* rounding; BUY trades are not in the denominator.
C8_WinRateOverSells ==
    \A u \in Users, p \in Periods :
        /\ CalculateProfitLoss(trades, u, p, clock).winRate
              = WinRateOverSells(AnalyticsWindow(p, clock), u)
        /\ NumberOf(TradesStats(trades, u, p, clock).winRate)
              = NumberOf(ToFixed(WinRateOverSells(StatsWindow(p, clock), u), 1))
        /\ GetUserStatsWinRate(trades, u)
              = MathRound(WinRateOverSells(Unbounded, u))

\* C9: with no SELL trade of the user in the window the reported winRate
\* denotes the number 0 (the number 0, or the string "0.0" of toFixed(1)),
\* whatever BUY trades the window holds and whatever lies outside it.
C9_NoSellsWinRateZero ==
    \A u \in Users, p \in Periods :
        /\ SellsIn(AnalyticsWindow(p, clock), u) = <<>>
              => CalculateProfitLoss(trades, u, p, clock).winRate = RInt(0)
        /\ SellsIn(StatsWindow(p, clock), u) = <<>>
              => NumberOf(TradesStats(trades, u, p, clock).winRate) = RInt(0)

\* A window without SELLs that holds a BUY, while a winning SELL of the
\* same user lies before it.
C9_Witness ==
    \E u \in Users, p \in Periods :
        LET w == AnalyticsWindow(p, clock)
        IN  /\ w = StatsWindow(p, clock)
            /\ SellsIn(w, u) = <<>>
            /\ WinnersIn(Unbounded, u) # <<>>
            /\ \E i \in 1..Len(trades) :
                  /\ trades[i].userId = u
                  /\ trades[i].type = "BUY"
                  /\ InWindow(w, trades[i])

SumProfitLoss(sells) == RSumSeq([i \in 1..Len(sells) |-> sells[i].profitLoss])

\* C10 as claimed: netProfit of analytics.calculateProfitLoss and
\* totalProfit of GET /trades/stats equal the sum of profitLoss over the
\* user's SELL trades dated inside the window.
C10_RealizedProfitIsSum ==
    \A u \in Users, p \in Periods :
        /\ CalculateProfitLoss(trades, u, p, clock).netProfit
              = SumProfitLoss(SellsIn(AnalyticsWindow(p, clock), u))
        /\ NumberOf(TradesStats(trades, u, p, clock).totalProfit)
              = SumProfitLoss(SellsIn(StatsWindow(p, clock), u))

\* C10 amended: netProfit is that sum, and totalProfit is the toFixed(2)
\* string of that sum, the sum rounded to two decimals.
C10_RealizedProfitRounded ==
    \A u \in Users, p \in Periods :
        /\ CalculateProfitLoss(trades, u, p, clock).netProfit
              = SumProfitLoss(SellsIn(AnalyticsWindow(p, clock), u))
        /\ TradesStats(trades, u, p, clock).totalProfit
              = ToFixed(SumProfitLoss(SellsIn(StatsWindow(p, clock), u)), 2)

\* A user with a SELL of non-zero profitLoss inside a window and another
\* before it.
C10_Witness ==
    \E u \in Users, p \in Periods :
        LET w == StatsWindow(p, clock)
            inside == SellsIn(w, u)
            all == SellsIn(Unbounded, u)
        IN  /\ w = AnalyticsWindow(p, clock)
            /\ Len(inside) = 1
            /\ Len(all) = 2
            /\ inside[1].profitLoss # RInt(0)
            /\ all[1].profitLoss # RInt(0)

\* Every prefix of the history h holds a non-negative number of shares.
NeverOversold(h) ==
    \A k \in 1..Len(h) :
        QuantityOf(BuysOf(SubSeq(h, 1, k))) >= QuantityOf(SellsOf(SubSeq(h, 1, k)))

\* The cost of the BUY shares of the history h left unmatched by FIFO
\* matching.
HeldCost(h) == CostOf(OpenLots(h, Len(h)))
HeldQuantity(h) == QuantityOf(BuysOf(h)) - QuantityOf(SellsOf(h))

\* (currentPrice - cost basis per held share) * quantity held.
UnrealizedOf(h, c) ==
    RMul(RSub(RInt(c), Rat(HeldCost(h), HeldQuantity(h))), RInt(HeldQuantity(h)))

\* C11: in GET /api/portfolio every open position whose quote came reports
\* unrealizedProfit = (currentPrice - averagePrice) * quantity, averagePrice
\* being the cost per share of the shares still held, and the reported
\* total is the sum of these over the open positions.
C11_UnrealizedProfit ==
    \A u \in Users, quote \in Quotes :
        (\A s \in Symbols : NeverOversold(History(trades, u, s))) =>
            \A found \in ApiFinds(trades, u) :
                LET r == ApiPortfolio(found, quote)
                IN  /\ \A s \in DOMAIN r.positions :
                          /\ HeldQuantity(History(trades, u, s)) > 0
                          /\ RInt(r.positions[s].unrealizedProfit)
                                = UnrealizedOf(History(trades, u, s), quote[s])
                    /\ r.unrealizedProfit =
                          SumOfSet([s \in DOMAIN r.positions |->
                                       r.positions[s].unrealizedProfit],
                                   DOMAIN r.positions)

\* The answers in which no lookup fails and every lookup that succeeded in
\* quote gives the same price.
Repaired(quote) ==
    {q \in Quotes : \A s \in Symbols :
        /\ q[s] # QuoteFailed
        /\ quote[s] # QuoteFailed => q[s] = quote[s]}

SymbolLists ==
    {<<>>} \cup {<<a>> : a \in Symbols}
           \cup {<<a, b>> : a \in Symbols, b \in Symbols}

\* C12: when quote lookups fail for some symbols the aggregation still
\* answers; every open position whose lookup failed stays in the result,
\* flagged, and realized profit and the figures of the other symbols are
\* those of a run in which no lookup failed.
C12_QuoteFailureIsolated ==
    \A u \in Users, quote \in Quotes :
        /\ \A found \in ApiFinds(trades, u), q \in Repaired(quote) :
              LET r == ApiPortfolio(found, quote)
                  ok == ApiPortfolio(found, q)
              IN  /\ ApiActiveSymbols(found) \subseteq DOMAIN r.positions
                  /\ r.realizedProfit = ok.realizedProfit
                  /\ \A s \in DOMAIN r.positions :
                        quote[s] # QuoteFailed => r.positions[s] = ok.positions[s]
        /\ \A symbols \in SymbolLists, q \in Repaired(quote) :
              LET r == GetBatchQuotes(symbols, quote)
                  ok == GetBatchQuotes(symbols, q)
              IN  /\ Len(r) = Len(symbols)
                  /\ \A i \in 1..Len(r) :
                        /\ r[i].symbol = symbols[i]
                        /\ IF quote[symbols[i]] = QuoteFailed
                           THEN r[i].error # "" /\ r[i].currentPrice = 0
                           ELSE r[i] = ok[i]

\* The trades of a user dated inside a window.
TradesIn(w, userId) ==
    Find(trades, LAMBDA t :
        t.userId = userId /\ InWindow(w, t) /\ t.tradeDate <= clock)

\* C13: for every user and window the portfolio component of
\* calculatePerformanceMetrics is the summary of the positions over all of
\* the user's trades (so it is the same for any two windows), while the
\* realized figures count only the trades dated inside the window.
C13_PortfolioIgnoresWindow ==
    \A u \in Users, p \in Periods :
        \A found \in PortfolioFinds(trades, u) :
            LET m == CalculatePerformanceMetrics(trades, u, p, clock, found)
                w == AnalyticsWindow(p, clock)
            IN  /\ m.portfolio = GetPortfolioSummary(found)
                /\ m.profitLoss.netProfit = SumProfitLoss(SellsIn(w, u))
                /\ m.profitLoss.totalTrades = Len(TradesIn(w, u))

\* An open position bought before a window that holds a later trade of the
\* same user, and a SELL of non-zero profitLoss before the window.
C13_Witness ==
    \E u \in Users, p \in Periods :
        LET w == AnalyticsWindow(p, clock)
            all == TradesIn(Unbounded, u)
        IN  /\ TradesIn(w, u) # <<>>
            /\ Len(all) = MaxTrades
            /\ all[1].type = "BUY" /\ ~InWindow(w, all[1])
            /\ all[2].type = "SELL" /\ ~InWindow(w, all[2])
            /\ all[2].profitLoss # RInt(0)
            /\ NetShares(trades, u, all[1].symbol) > 0

\* C14: a symbol whose trades net to a negative quantity is named in the
\* result of position computation (it is surfaced, not dropped like an
\* empty position); a symbol that nets to exactly 0 is not among the
\* active holdings, and every position returned for a symbol that nets to
\* 0 or more has quantity > 0.
C14_NegativeQuantitySurfaced ==
    \A u \in Users, s \in Symbols :
        LET net == NetShares(trades, u, s)
        IN  /\ \A found \in PortfolioFinds(trades, u) :
                  /\ net < 0 => s \in GetUserPortfolio(found)
                  /\ net = 0 => s \notin GetUserPortfolio(found)
                  /\ (net >= 0 /\ s \in GetUserPortfolio(found))
                        => PortfolioPosition(found, s).totalQuantity > 0
            /\ \A found \in ApiFinds(trades, u), quote \in Quotes :
                  LET r == ApiPortfolio(found, quote)
                  IN  /\ net < 0 => s \in DOMAIN r.positions
                      /\ net = 0 => s \notin DOMAIN r.positions
                      /\ (net >= 0 /\ s \in DOMAIN r.positions)
                            => r.positions[s].quantity > 0

\* A request literal that is missing, not a number, or not positive.
NotPositiveNumber(raw) == IsNaN(ParseInt(raw)) \/ ParseInt(raw) <= 0

NotBuyOrSell(action) == ToUpperCase(action) \notin {"BUY", "SELL"}

\* The request is answered with a validation error and the store is
\* untouched.
RejectedAsInvalid ==
    /\ trades' = trades
    /\ last'.status = 400
    /\ last'.trade = NoTrade

\* C15: a trade-creation request with a missing symbol, a missing or
\* non-BUY/SELL action, or a non-numeric or non-positive quantity or price
\* is answered with a validation error (status 400), and the step changes
\* no Trade record.
C15_MalformedRejected ==
    [][/\ \A r \in ValidateRequests :
            (/\ \/ r.symbol = ""
                \/ NotBuyOrSell(r.action)
                \/ NotPositiveNumber(r.quantity)
                \/ NotPositiveNumber(r.price)
             /\ \/ Simulate(r.userId, r.symbol, r.action, r.quantity, r.price)
                \/ ApiTrade(r.userId, r.symbol, r.action, r.quantity, r.price))
                => RejectedAsInvalid
       /\ \A r \in ValidateStockRequests, c \in QuotePrices \cup {QuoteFailed} :
            (/\ NotBuyOrSell(r.type) \/ NotPositiveNumber(r.quantity)
             /\ StockTrade(r.userId, r.symbol, r.type, r.quantity, c))
                => RejectedAsInvalid]_vars

\* The trade with this id exists and belongs to the user.
Owns(userId, id) ==
    \E i \in 1..Len(trades) : trades[i].id = id /\ trades[i].userId = userId

SoldAgain ==
    /\ SoldWithinHoldings
    /\ LET h == History(trades, last.trade.userId, last.trade.symbol)
       IN  /\ NeverOversold(h)
           /\ Len(SellsOf(h)) >= 2

\* C17: a SELL that follows earlier SELLs of the same user and symbol is
\* matched against the oldest BUY shares that the earlier SELLs left: its
\* profitLoss is (price - matched cost / quantity) * quantity for the lots
\* remaining after the FIFO consumption of the earlier SELLs.
C17_LaterSellSkipsConsumedLots ==
    SoldAgain =>
        LET h == History(trades, last.trade.userId, last.trade.symbol)
        IN  last.trade.profitLoss = FifoProfitLoss(h, Len(h))

\* The position after the trades of h taken oldest first: a BUY adds its
\* quantity and cost, a SELL removes its quantity and the average price
\* before it times its quantity.
RECURSIVE OldestFirstPosition(_)
OldestFirstPosition(h) ==
    IF h = <<>> THEN [quantity |-> 0, totalCost |-> RInt(0)]
    ELSE LET before == OldestFirstPosition(SubSeq(h, 1, Len(h) - 1))
             t == h[Len(h)]
         IN  IF t.type = "BUY"
             THEN [quantity |-> before.quantity + t.quantity,
                   totalCost |-> RAdd(before.totalCost, RInt(t.quantity * t.price))]
             ELSE [quantity |-> before.quantity - t.quantity,
                   totalCost |->
                      RSub(before.totalCost,
                           RMul(RDiv(before.totalCost, RInt(before.quantity)),
                                RInt(t.quantity)))]

OldestFirstAverage(h) ==
    LET position == OldestFirstPosition(h)
    IN  IF position.quantity > 0
        THEN RDiv(position.totalCost, RInt(position.quantity))
        ELSE RInt(0)

\* The trades of h were made at instants that increase strictly.
StrictlyDated(h) == \A i \in 1..(Len(h) - 1) : h[i].tradeDate < h[i + 1].tradeDate

\* C18: for a history that never oversells, made at distinct instants, and
\* that leaves shares, the avgPrice of Trade.getUserPortfolio and of the
\* position block of GET /stocks/:symbol is the average price of the fold
\* of the trades oldest first.
C18_AverageFoldsOldestFirst ==
    \A u \in Users, s \in Symbols :
        LET h == History(trades, u, s)
        IN  (NeverOversold(h) /\ StrictlyDated(h) /\ HeldQuantity(h) > 0) =>
                /\ \A found \in PortfolioFinds(trades, u) :
                      PortfolioPosition(found, s).avgPrice = OldestFirstAverage(h)
                /\ \A found \in StocksFinds(trades, u, s) :
                      StocksPosition(found).avgPrice = JsNum(OldestFirstAverage(h))

\* The places of the fold over found where a SELL of the symbol takes only
\* part of the shares that the position holds before it; held gives the
\* quantity of the position after a prefix of found.
PartialSells(found, symbol, held(_)) ==
    {k \in 1..Len(found) :
        /\ found[k].symbol = symbol
        /\ found[k].type = "SELL"
        /\ held(SubSeq(found, 1, k - 1)) > found[k].quantity}

\* C19: in every position aggregation a SELL that leaves shares lowers the
\* quantity by the quantity sold and the total cost by the average price
\* before the SELL times the quantity sold, whatever the sell price, so the
\* average price after the SELL is the average price before it.
C19_SellKeepsAveragePrice ==
    \A u \in Users, s \in Symbols :
        /\ \A found \in PortfolioFinds(trades, u) :
              \A k \in PartialSells(found, s,
                         LAMBDA f : PortfolioPosition(f, s).totalQuantity) :
                  LET before == PortfolioPosition(SubSeq(found, 1, k - 1), s)
                      after == PortfolioPosition(SubSeq(found, 1, k), s)
                  IN  /\ after.totalQuantity = before.totalQuantity - found[k].quantity
                      /\ after.totalInvestment =
                            RSub(before.totalInvestment,
                                 RMul(before.avgPrice, RInt(found[k].quantity)))
                      /\ after.avgPrice = before.avgPrice
        /\ \A found \in ApiFinds(trades, u) :
              \A k \in PartialSells(found, s, LAMBDA f : ApiPosition(f, s).quantity) :
                  LET before == ApiPosition(SubSeq(found, 1, k - 1), s)
                      after == ApiPosition(SubSeq(found, 1, k), s)
                  IN  /\ after.quantity = before.quantity - found[k].quantity
                      /\ RInt(after.totalCost) =
                            RSub(RInt(before.totalCost),
                                 RMul(before.averagePrice, RInt(found[k].quantity)))
                      /\ after.averagePrice = before.averagePrice
        /\ \A found \in StocksFinds(trades, u, s) :
              \A k \in PartialSells(found, s,
                         LAMBDA f : StocksPositionFold(f).totalShares) :
                  LET before == StocksPosition(SubSeq(found, 1, k - 1))
                      after == StocksPosition(SubSeq(found, 1, k))
                  IN  /\ after.totalShares = before.totalShares - found[k].quantity
                      /\ after.totalInvestment =
                            JsMinus(before.totalInvestment,
                                    JsTimesInt(found[k].quantity, before.avgPrice))
                      /\ after.avgPrice = before.avgPrice

\* C20: for a history that never oversells, holds a SELL and leaves
\* shares, the position's total cost is the cost of the BUY shares that FIFO
\* matching leaves unmatched, and its average price is that cost divided by
\* the quantity left.
C20_RemainingCostIsUnmatchedLots ==
    \A u \in Users, s \in Symbols :
        LET h == History(trades, u, s)
        IN  (NeverOversold(h) /\ SellsOf(h) # <<>> /\ HeldQuantity(h) > 0) =>
                /\ \A found \in PortfolioFinds(trades, u) :
                      LET pos == PortfolioPosition(found, s)
                      IN  /\ pos.totalInvestment = RInt(HeldCost(h))
                          /\ pos.avgPrice = Rat(HeldCost(h), HeldQuantity(h))
                /\ \A found \in ApiFinds(trades, u) :
                      LET pos == ApiPosition(found, s)
                      IN  /\ pos.totalCost = HeldCost(h)
                          /\ pos.averagePrice = Rat(HeldCost(h), HeldQuantity(h))

\* C21: the positions are a function of the set of a user's trades: whatever
\* the order in which the store returns them, GET /api/portfolio gives each
\* symbol the same quantity, average price, total cost and realized profit,
\* and Trade.getUserPortfolio the same quantity, average price and cost.
C21_PositionsIgnoreFindOrder ==
    \A u \in Users, s \in Symbols :
        /\ \A f1, f2 \in ApiFinds(trades, u) :
              ApiPosition(f1, s) = ApiPosition(f2, s)
        /\ \A f1, f2 \in PortfolioFinds(trades, u) :
              PortfolioPosition(f1, s) = PortfolioPosition(f2, s)

NamedWindows == {"today", "week", "month", "year"}

\* C22: at every instant and for every stored trade, the operations that
\* select trades by a named window agree: the trade is inside the window for
\* GET /trades/stats iff it is for GET /trades, for
\* analytics.calculateProfitLoss, for GET /api/portfolio/:period and for the
\* profile's getUserStats; "today" starts at midnight and "week" exactly
\* seven days before now.
C22_WindowsAgree ==
    \A period \in NamedWindows, i \in 1..Len(trades) :
        LET t == trades[i]
            inStats == InWindow(StatsWindow(period, clock), t)
        IN  /\ period = "today" => inStats = (t.tradeDate >= StartOfDay(clock))
            /\ period = "week" => inStats = (t.tradeDate >= clock - WeekTicks)
            /\ inStats = InWindow(TradesWindow(period, clock), t)
            /\ inStats = InWindow(AnalyticsWindow(period, clock), t)
            /\ \A strictQuery \in StrictQueryBuilds :
                  inStats = PeriodSelects(strictQuery, period, clock, t)
            /\ period # "year" => inStats = ProfileSelects(period, clock, t)

\* The cost basis a stored SELL was matched against: the average buy price
\* times the quantity sold, which is the proceeds less the profit stored.
MatchedCost(t) == RSub(RInt(t.totalAmount), t.profitLoss)

\* C23: every stored SELL whose matched cost is not zero has
\* profitLossPercentage = 100 * profitLoss / matched cost.
C23_PercentageOfCostBasis ==
    \A i \in 1..Len(trades) :
        LET t == trades[i]
        IN  (t.type = "SELL" /\ MatchedCost(t).n # 0) =>
                t.profitLossPercentage =
                    JsNum(RMul(RDiv(t.profitLoss, MatchedCost(t)), RInt(100)))

\* C24: a SELL recorded while the store holds no BUY share of its (user,
\* symbol) is stored with profitLoss 0 and profitLossPercentage 0.
C24_UnmatchedSellStoresZero ==
    (/\ last.op \in CreationOps
     /\ last.status = 200
     /\ last.trade.type = "SELL"
     /\ BuysOf(History(trades, last.trade.userId, last.trade.symbol)) = <<>>) =>
        /\ last.trade.profitLoss = RInt(0)
        /\ last.trade.profitLossPercentage = JsNum(RInt(0))

\* C25: every stored trade has a quantity of at least one share and a price
\* above zero.
C25_StoredTradesPositive ==
    \A i \in 1..Len(trades) :
        /\ trades[i].quantity \in Nat \ {0}
        /\ trades[i].price > 0

\* C26: every GET /api/portfolio request that has started eventually
\* answers, whether or not the Quote Provider settles its lookups.
C26_AggregationResponds ==
    \A slot \in Slots :
        (\E r \in inflight : r.slot = slot) ~> (\A r \in inflight : r.slot # slot)

\* C27: whenever a (user, symbol) with trades holds no share, the profitLoss
\* stored on its SELL trades adds up to the proceeds of its SELLs less the
\* cost of its BUYs.
C27_RealizedProfitConserved ==
    \A u \in Users, s \in Symbols :
        LET h == History(trades, u, s)
        IN  (h # <<>> /\ HeldQuantity(h) = 0) =>
                SumProfitLoss(SellsOf(h)) =
                    RInt(CostOf(SellsOf(h)) - CostOf(BuysOf(h)))

\* The trades of a user, and those of a user in one symbol.
OwnTrades(ts, userId) == SelectSeq(ts, LAMBDA t : t.userId = userId)
OwnSymbolTrades(ts, userId, symbol) ==
    SelectSeq(ts, LAMBDA t : t.userId = userId /\ t.symbol = symbol)

\* The store a successful creation found: the new trade is the last one.
StoreBefore == SubSeq(trades, 1, Len(trades) - 1)

\* C28: what routes/trades.js computes for a user is the same on the store
\* and on the store without the other users' trades: the SELL sufficiency
\* check (which also ignores the user's other symbols) and the profitLoss of
\* POST /trades/simulate, GET /trades/stats for every period, and the trades
\* GET /trades/portfolio folds; and the SELL a simulate stored was checked
\* and priced against the user's own trades in the symbol.
C28_UserIsolation ==
    /\ \A u \in Users, s \in Symbols :
          LET own == OwnTrades(trades, u)
          IN  /\ NetShares(trades, u, s) = NetShares(own, u, s)
              /\ NetShares(trades, u, s) =
                     NetShares(OwnSymbolTrades(trades, u, s), u, s)
              /\ \A p \in QuotePrices, q \in 1..MaxTrades :
                    SimulateProfitLoss(trades, u, s, p, q) =
                        SimulateProfitLoss(own, u, s, p, q)
              /\ \A period \in Periods :
                    TradesStats(trades, u, period, clock) =
                        TradesStats(own, u, period, clock)
              /\ PortfolioFinds(trades, u) = PortfolioFinds(own, u)
    /\ (last.op = "simulate" /\ last.status = 200 /\ last.trade.type = "SELL") =>
          LET t == last.trade
              own == OwnSymbolTrades(StoreBefore, t.userId, t.symbol)
          IN  /\ t.quantity <= NetShares(own, t.userId, t.symbol)
              /\ t.profitLoss =
                     SimulateProfitLoss(own, t.userId, t.symbol, t.price, t.quantity)

\* A SELL of u1 in AAPL was refused for insufficient shares while another
\* user holds AAPL and u1 holds another symbol.
C28_Witness ==
    /\ last.op = "simulate"
    /\ last.error = "Insufficient shares"
    /\ \E i \in 1..Len(trades) :
          trades[i].userId = "u2" /\ trades[i].symbol = "AAPL" /\ trades[i].type = "BUY"
    /\ \E i \in 1..Len(trades) :
          trades[i].userId = "u1" /\ trades[i].symbol = "MSFT" /\ trades[i].type = "BUY"
    /\ NetShares(trades, "u1", "AAPL") = 0

\* A request to POST /trades/simulate that carries the session.
SimulateRequestOf(session) ==
    \E slot \in Slots, r \in AccountRequests :
        TradesSimulate(session, slot, r.symbol, r.action, r.quantity, r.price)

\* C29: once POST /profile/delete has removed the user document of U, no
\* trade of U is in the store, whatever U's other requests in flight do; and
\* a request that carries a session of U to a route behind requireAuth after
\* that is redirected to the login page, its session destroyed, and nothing
\* of it is left in flight.
C29_DeletedAccountLeavesNothing ==
    [][\A u \in Users :
          /\ u \notin DOMAIN users' =>
                \A i \in 1..Len(trades') : trades'[i].userId # u
          /\ u \notin DOMAIN users =>
                \A session \in SessionIds :
                    (SessionUser(session) = u /\ SimulateRequestOf(session)) =>
                        /\ last'.op = "requireAuth"
                        /\ last'.status = 302
                        /\ session \notin sessions'
                        /\ inflight' = inflight
                        /\ trades' = trades]_vars

\* Whether two symbols name the same ticker.
SameTicker(a, b) == ToUpperCase(a) = ToUpperCase(b)

\* No watchlist holds two entries of one ticker.
NoTickerTwice(us) ==
    \A u \in DOMAIN us :
        \A i, j \in 1..Len(us[u].watchlist) :
            SameTicker(us[u].watchlist[i].symbol, us[u].watchlist[j].symbol) => i = j

\* A remove request of the session for the symbol that was answered as done.
RemovedBy(session, symbol) ==
    /\ \/ DashboardWatchlistRemove(session, symbol)
       \/ ApiWatchlistRemove(session, symbol)
    /\ last'.status = 200

\* C30: after every watchlist request no watchlist holds two entries of one
\* ticker, the case of the letters ignored; and after a remove that was
\* answered as done the user's watchlist holds no entry of that ticker.
C30_WatchlistTickersUnique ==
    [][/\ NoTickerTwice(users')
       /\ \A session \in SessionIds, symbol \in WatchSymbols \ {""} :
             RemovedBy(session, symbol) =>
                 \A i \in 1..Len(users'[SessionUser(session)].watchlist) :
                     ~SameTicker(users'[SessionUser(session)].watchlist[i].symbol,
                                 symbol)]_vars

\* A second add of a ticker already listed, in the other case, was refused
\* while the user watches two tickers.
C30_Witness ==
    /\ last.op = "dashboardWatchlistAdd"
    /\ last.error = "Stock is already in your watchlist"
    /\ Len(users["u1"].watchlist) = 2
    /\ users["u2"].watchlist = <<>>

====
